---- MODULE Spec2Model ----
(***************************************************************************)
(* Routing and geofencing engine of the radar repository.                  *)
(*                                                                         *)
(*  - server-map/routing_service.py, server-map/app.py: the routing        *)
(*    service, its provider registry and the GET /route handler.           *)
(*  - server/api/views.py: radars_updates_view (versioned delta sync).     *)
(*                                                                         *)
(* Coordinates are whole degrees.  Everything a provider obtains from its  *)
(* road graph, its database or the random source is an input of the        *)
(* action that calls it.                                                   *)
(***************************************************************************)
EXTENDS Integers, Sequences, FiniteSets, TLC

VARIABLES
    algorithms,   \* RoutingService.algorithms: the names in the registry
    svc,          \* construction record of the RoutingService
    req,          \* the route request in flight, or None
    resp,         \* the answer to the last route request, or None
    gj,           \* one application of _create_geojson_feature
    radars,       \* the Radar table: id -> row, or NoRow
    clock,        \* timezone.now(), in ticks
    hasGis,       \* settings.HAS_GIS / HAS_GIS_SUPPORT
    client,       \* the delta-sync client: its credentials and its scope
    prev,         \* the version the client holds from its last call, if the
                  \* table has not changed since
    ures,         \* the exchange with the Django API not yet taken, or None
    settings,     \* django.conf.settings: the routing keys
    nearby,       \* one application of radars_nearby_view
    grid,         \* one application of GridRouter.generate_route
    sync,         \* what the delta-sync client holds from its last sync
    measured,     \* one application of calculate_route_metrics
    proj,         \* one application of a projecting route generator
    detect        \* the detect requests in flight on one radar

vars == <<algorithms, svc, req, resp, gj, radars, clock, hasGis, client, prev, ures,
          settings, nearby, grid, sync, measured, proj, detect>>

mapVars == <<algorithms, svc, req, resp>>
deltaVars == <<radars, clock, hasGis, client, prev, ures>>
moreVars == <<sync, measured, proj, detect>>
auxVars == <<settings, nearby, grid, moreVars>>

None == "None"
Absent == "absent"

(***************************************************************************)
(* Bounds of the model.                                                    *)
(***************************************************************************)
MaxWaypoints == 5      \* longest waypoint sequence given to the assembler
MaxCoordsParam == 3    \* largest max_coordinates tried by the assembler
MaxPath == 3           \* longest node path / geometry a backend returns
MaxInterior == 2       \* most interior points a synthetic generator adds
MaxClock == 2          \* last tick of the clock
TicksPerSecond == 2    \* clock ticks in one second

(***************************************************************************)
(* Coordinate (routing_service.py).                                        *)
(***************************************************************************)
Coord(lat, lon) == [lat |-> lat, lon |-> lon]

\* Coordinate.__post_init__: TRUE when construction does not raise.
CoordinateOkWide(lat, lon) ==
    /\ -180 <= lat /\ lat <= 180
    /\ -180 <= lon /\ lon <= 180

CoordinateOk(lat, lon) ==
    /\ -90 <= lat /\ lat <= 90
    /\ -180 <= lon /\ lon <= 180

\* Coordinate.to_tuple: (lon, lat) for GeoJSON.
ToTuple(c) == <<c.lon, c.lat>>

(***************************************************************************)
(* GeoJSON assembly (RoutingService._create_geojson_feature).              *)
(***************************************************************************)
\* Python's seq[::step]: the elements at 0-based indices 0, step, 2*step, ...
Stride(seq, step) ==
    [k \in 1..((Len(seq) + step - 1) \div step) |-> seq[1 + (k - 1) * step]]

CreateGeojsonFeature(waypoints, metrics, max_coords) ==
    LET coordinates == [i \in 1..Len(waypoints) |-> ToTuple(waypoints[i])]
        simplified ==
            IF Len(coordinates) > max_coords
            THEN LET step == Len(coordinates) \div max_coords
                 IN  Append(Stride(coordinates, step),
                            ToTuple(waypoints[Len(waypoints)]))
            ELSE coordinates
    IN  [type |-> "Feature",
         properties |-> metrics,
         geometry |-> [type |-> "LineString", coordinates |-> simplified]]

\* RouteGenerator.calculate_route_metrics / _empty_metrics: the two fields
\* that do not depend on the summed haversine distance.
CalculateRouteMetrics(waypoints, algorithm) ==
    IF Len(waypoints) < 2
    THEN [algorithm |-> algorithm, waypoint_count |-> 0]
    ELSE [algorithm |-> algorithm, waypoint_count |-> Len(waypoints)]

\* The points a road graph, a database geometry or a generator can return.
GeoPoints == {Coord(41, 69), Coord(42, 70), Coord(43, 71)}

SeqsOf(S, lo, hi) == UNION {[1..n -> S] : n \in lo..hi}

NoFeature == [type |-> "none"]

GjInit ==
    \E w \in SeqsOf(GeoPoints, 2, MaxWaypoints), m \in 1..MaxCoordsParam :
        gj = [waypoints |-> w, max_coords |-> m, feature |-> NoFeature]

GjIdle == gj = [waypoints |-> <<>>, max_coords |-> 1, feature |-> NoFeature]

\* One call of _create_geojson_feature on the drawn input.
Assemble ==
    /\ gj.feature = NoFeature
    /\ gj' = [gj EXCEPT !.feature =
                CreateGeojsonFeature(gj.waypoints,
                    CalculateRouteMetrics(gj.waypoints, "direct"),
                    gj.max_coords)]
    /\ UNCHANGED <<mapVars, deltaVars, auxVars>>

(***************************************************************************)
(* Provider registry (RoutingService.__init__ and the two registrations).  *)
(***************************************************************************)
BuiltIn == {"smart", "grid", "curved", "direct"}

\* config.DEFAULT_BACKEND, and getattr(config, 'FALLBACK_ALGORITHM', 'smart').
DEFAULT_BACKEND == "osm"
FALLBACK_ALGORITHM == "smart"
MAX_COORDINATES == 200

\* What the deployment offers to each registration.
PgEnvs == {"disabled", "no_psycopg2", "no_pg_settings", "bad_schema", "ok"}
OsmEnvs == {"no_pbf", "no_deps", "unreadable_pbf", "empty_network", "ok"}

\* `except Exception: return` / `except Exception: pass`.
ExceptException(outcome) == [outcome EXCEPT !.raised = "none"]

\* The try body of _register_pg_router_if_available.
PgRegistrationBody(algs, env) ==
    IF env = "disabled" THEN [algs |-> algs, raised |-> "none"]
    ELSE IF env = "no_psycopg2" THEN [algs |-> algs, raised |-> "ImportError"]
    ELSE IF env = "no_pg_settings" THEN [algs |-> algs, raised |-> "AttributeError"]
    ELSE IF env = "bad_schema" THEN [algs |-> algs, raised |-> "ValueError"]
    ELSE [algs |-> algs \cup {"pg"}, raised |-> "none"]

RegisterPgRouterIfAvailable(algs, env) ==
    ExceptException(PgRegistrationBody(algs, env))

\* The inner try of _register_osm_router_if_available: build the router,
\* then bind it.
OsmConstructAndBindEager(algs, env) ==
    IF env = "ok" THEN [algs |-> algs \cup {"osm"}, raised |-> "none"]
    ELSE [algs |-> algs \cup {"osm"}, raised |-> "RuntimeError"]

OsmConstructAndBind(algs, env) ==
    IF env = "ok" THEN [algs |-> algs \cup {"osm"}, raised |-> "none"]
    ELSE [algs |-> algs, raised |-> "RuntimeError"]

\* The outer try body of _register_osm_router_if_available.
OsmRegistrationBody(algs, env) ==
    IF env = "no_pbf" THEN [algs |-> algs, raised |-> "none"]
    ELSE IF env = "no_deps" THEN [algs |-> algs, raised |-> "ImportError"]
    ELSE ExceptException(OsmConstructAndBind(algs, env))

RegisterOsmRouterIfAvailable(algs, env) ==
    ExceptException(OsmRegistrationBody(algs, env))

SvcNew == [state |-> "new", pgCompleted |-> FALSE, osmCompleted |-> FALSE,
           pgAttempts |-> 0, osmAttempts |-> 0]

\* RoutingService.__init__ (app.py constructs the service once, at import).
Construct ==
    /\ svc.state = "new"
    /\ \E pe \in PgEnvs, oe \in OsmEnvs :
         LET r1 == RegisterPgRouterIfAvailable(BuiltIn, pe)
             r2 == IF r1.raised = "none"
                   THEN RegisterOsmRouterIfAvailable(r1.algs, oe)
                   ELSE r1
         IN  /\ algorithms' = r2.algs
             /\ svc' = [state |-> IF r2.raised = "none" THEN "ready" ELSE "raised",
                        pgCompleted |-> (pe = "ok"),
                        osmCompleted |-> (r1.raised = "none" /\ oe = "ok"),
                        pgAttempts |-> svc.pgAttempts + 1,
                        osmAttempts |-> svc.osmAttempts
                                        + (IF r1.raised = "none" THEN 1 ELSE 0)]
    /\ UNCHANGED <<req, resp, gj, auxVars, deltaVars>>

(***************************************************************************)
(* Route providers: generate_route of each registered name.                *)
(***************************************************************************)
NoEnv == [k |-> "none", pts |-> <<>>]

\* What the provider meets during one call: the interior points a synthetic
\* generator computes (or a projected point leaving the valid range), the
\* result of snapping and path search on the road graph, the answer of the
\* database.
EnvsFor(name) ==
    IF name = "direct" THEN {NoEnv}
    ELSE IF name = "grid"
    THEN {[k |-> "interior", pts |-> p] : p \in SeqsOf(GeoPoints, 0, MaxInterior)}
    ELSE IF name \in {"smart", "curved"}
    THEN {[k |-> "interior", pts |-> p] : p \in SeqsOf(GeoPoints, 0, MaxInterior)}
         \cup {[k |-> "projection_out_of_range", pts |-> <<>>]}
    ELSE IF name = "osm"
    THEN {[k |-> "path", pts |-> p] : p \in SeqsOf(GeoPoints, 1, MaxPath)}
         \cup {[k |-> e, pts |-> <<>>] : e \in {"snap_miss", "no_path", "few_nodes"}}
    ELSE IF name = "pg"
    THEN {[k |-> "geometry", pts |-> p] : p \in SeqsOf(GeoPoints, 0, MaxPath)}
         \cup {[k |-> e, pts |-> <<>>] :
                 e \in {"connect_failed", "schema_missing", "no_vertex", "no_path"}}
    ELSE {NoEnv}

Returned(waypoints) == [raised |-> "none", waypoints |-> waypoints]
Raised(exc) == [raised |-> exc, waypoints |-> <<>>]

\* coords[0] = start; coords[-1] = end (on a non-empty list).
PinEndpoints(coords, start, end) ==
    [[coords EXCEPT ![1] = start] EXCEPT ![Len(coords)] = end]

\* DirectRouter.generate_route
DirectGenerate(start, end) == Returned(<<start, end>>)

\* SmartRouter.generate_route with _generate_curved_waypoints, and
\* CurvedRouter.generate_route: [start, end] when no interior point is due,
\* else start, the projected interior points, end; destination_point builds
\* each interior point with Coordinate(...), which raises out of range.
ProjectedGenerate(start, end, env) ==
    IF env.k = "projection_out_of_range" THEN Raised("ValueError")
    ELSE Returned(<<start>> \o env.pts \o <<end>>)

\* GridRouter.generate_route: interior points lie between start and end.
GridGenerate(start, end, env) == Returned(<<start>> \o env.pts \o <<end>>)

\* OSMGraphRouter.generate_route
OsmGenerate(start, end, env) ==
    IF env.k = "few_nodes" THEN Raised("IndexError")  \* _nearest_node, k=5
    ELSE IF env.k = "snap_miss" THEN Returned(<<start, end>>)
    ELSE IF env.k = "no_path" THEN Returned(<<start, end>>)
    ELSE IF Len(env.pts) = 0 THEN Returned(<<start, end>>)
    ELSE Returned(PinEndpoints(env.pts, start, end))

\* PGRoutingRouter.generate_route
PgGenerate(start, end, env) ==
    IF env.k = "connect_failed" THEN Raised("OperationalError")
    ELSE IF env.k = "schema_missing" THEN Raised("RuntimeError")
    ELSE IF env.k = "no_vertex" THEN Returned(<<start, end>>)
    ELSE IF env.k = "no_path" THEN Returned(<<start, end>>)
    ELSE IF Len(env.pts) = 0 THEN Returned(<<start, end>>)
    ELSE Returned(PinEndpoints(env.pts, start, end))

\* router = self.algorithms[algorithm]; router.generate_route(start, end)
GenerateRoute(name, start, end, env) ==
    IF name = "direct" THEN DirectGenerate(start, end)
    ELSE IF name = "grid" THEN GridGenerate(start, end, env)
    ELSE IF name \in {"smart", "curved"} THEN ProjectedGenerate(start, end, env)
    ELSE IF name = "osm" THEN OsmGenerate(start, end, env)
    ELSE PgGenerate(start, end, env)

(***************************************************************************)
(* RoutingService.get_route                                                *)
(***************************************************************************)
\* The selection at the top of get_route.
ResolveAlgorithm(algs, algorithm) ==
    IF algorithm = None
    THEN IF DEFAULT_BACKEND \in algs THEN DEFAULT_BACKEND ELSE FALLBACK_ALGORITHM
    ELSE algorithm

\* get_route up to the provider call: the registry check and the
\* coordinate validation, both raising ValueError.
GetRoutePre(algs, slat, slon, elat, elon, algorithm) ==
    LET alg == ResolveAlgorithm(algs, algorithm)
    IN  IF alg \notin algs THEN [k |-> "raise", exc |-> "ValueError"]
        ELSE IF ~CoordinateOk(slat, slon) \/ ~CoordinateOk(elat, elon)
        THEN [k |-> "raise", exc |-> "ValueError"]
        ELSE [k |-> "route", alg |-> alg,
              start |-> Coord(slat, slon), end |-> Coord(elat, elon)]

\* met: what the provider met during the call (env.k), kept with the result.
GetRoute(algs, slat, slon, elat, elon, algorithm, env) ==
    LET pre == GetRoutePre(algs, slat, slon, elat, elon, algorithm)
    IN  IF pre.k = "raise"
        THEN [raised |-> pre.exc, feature |-> NoFeature, invoked |-> <<>>,
              waypoints |-> <<>>, providerRaised |-> "none", met |-> "none"]
        ELSE LET g == GenerateRoute(pre.alg, pre.start, pre.end, env)
             IN  IF g.raised # "none"
                 THEN [raised |-> g.raised, feature |-> NoFeature,
                       invoked |-> <<pre.alg>>, waypoints |-> <<>>,
                       providerRaised |-> g.raised, met |-> env.k]
                 ELSE [raised |-> "none",
                       feature |-> CreateGeojsonFeature(g.waypoints,
                                      CalculateRouteMetrics(g.waypoints, pre.alg),
                                      MAX_COORDINATES),
                       invoked |-> <<pre.alg>>, waypoints |-> g.waypoints,
                       providerRaised |-> "none", met |-> env.k]

\* The provider get_route reaches with these arguments, or "none".
RoutedProvider(algs, slat, slon, elat, elon, algorithm) ==
    LET pre == GetRoutePre(algs, slat, slon, elat, elon, algorithm)
    IN  IF pre.k = "route" THEN pre.alg ELSE "none"

(***************************************************************************)
(* GET /route (app.py get_route).                                          *)
(***************************************************************************)
RAbsent == [k |-> "absent"]
RText == [k |-> "text"]              \* a value float() rejects
RNum(v) == [k |-> "num", v |-> v]

SAbsent == [k |-> "absent"]
SEmpty == [k |-> "empty"]
SStr(parts) == [k |-> "str", parts |-> parts]   \* the string split at ','

\* request.args.get(name, type=float): None when absent or not a float.
FloatArg(raw) == IF raw.k = "num" THEN raw ELSE RAbsent

\* Lines 77-114 of app.py: the four float parameters, else from/to.
ParseRouteArgs(r) ==
    LET slat == FloatArg(r.start_lat)
        slon == FloatArg(r.start_lon)
        elat == FloatArg(r.end_lat)
        elon == FloatArg(r.end_lon)
    IN  IF \A a \in {slat, slon, elat, elon} : a.k = "num"
        THEN [k |-> "ok", slat |-> slat.v, slon |-> slon.v,
              elat |-> elat.v, elon |-> elon.v]
        ELSE IF r.from.k # "str" \/ r.to.k # "str"
        THEN [k |-> "missing"]
        ELSE IF \/ Len(r.from.parts) # 2
                \/ Len(r.to.parts) # 2
                \/ \E i \in 1..2 : r.from.parts[i].k # "num" \/ r.to.parts[i].k # "num"
        THEN [k |-> "format"]
        ELSE [k |-> "ok", slat |-> r.from.parts[1].v, slon |-> r.from.parts[2].v,
              elat |-> r.to.parts[1].v, elon |-> r.to.parts[2].v]

\* Lines 116-118 of app.py.
AppAlgorithm(algorithm) == IF algorithm = None THEN DEFAULT_BACKEND ELSE algorithm

NoReq == [kind |-> "none"]
NoResp == [kind |-> "none"]

Answer(r, status, o) ==
    [kind |-> r.kind, req |-> r, status |-> status, raised |-> o.raised,
     feature |-> o.feature, invoked |-> o.invoked, waypoints |-> o.waypoints,
     providerRaised |-> o.providerRaised, met |-> o.met]

NotCalled == [raised |-> "none", feature |-> NoFeature, invoked |-> <<>>,
              waypoints |-> <<>>, providerRaised |-> "none", met |-> "none"]

\* The whole handler: parse, call the service, map exceptions to 400 / 500.
AppGetRoute(algs, r, env) ==
    LET p == ParseRouteArgs(r)
    IN  IF p.k # "ok" THEN Answer(r, 400, NotCalled)
        ELSE LET o == GetRoute(algs, p.slat, p.slon, p.elat, p.elon,
                               AppAlgorithm(r.algorithm), env)
             IN  IF o.raised = "none" THEN Answer(r, 200, o)
                 ELSE IF o.raised = "ValueError"
                 THEN Answer(r, 400, [o EXCEPT !.raised = "none"])
                 ELSE Answer(r, 500, [o EXCEPT !.raised = "none"])

\* The provider this request reaches, or "none".
HttpProvider(algs, r) ==
    LET p == ParseRouteArgs(r)
    IN  IF p.k # "ok" THEN "none"
        ELSE RoutedProvider(algs, p.slat, p.slon, p.elat, p.elon,
                            AppAlgorithm(r.algorithm))

\* A direct call of RoutingService.get_route (test_routing.py, health_check).
CallGetRoute(algs, r, env) ==
    LET o == GetRoute(algs, r.start_lat, r.start_lon, r.end_lat, r.end_lon,
                      r.algorithm, env)
    IN  Answer(r, IF o.raised = "none" THEN 200 ELSE 0, o)

(***************************************************************************)
(* GET /algorithms (app.py get_algorithms).                                *)
(***************************************************************************)
\* RoutingService.get_available_algorithms: the names of the list, in order.
GetAvailableAlgorithms(algs) ==
    LET fixed == <<"pg", "smart", "grid", "curved", "direct">>
    IN  IF "osm" \in algs THEN <<"osm">> \o fixed ELSE fixed

AlgorithmsRequest == [kind |-> "algorithms"]

\* The handler: the list and getattr(config, 'DEFAULT_BACKEND', 'pg').
AppGetAlgorithms(algs, r) ==
    [kind |-> "algorithms", req |-> r, status |-> 200,
     listed |-> GetAvailableAlgorithms(algs), default |-> DEFAULT_BACKEND]

(***************************************************************************)
(* GET /health (app.py health_check).                                      *)
(***************************************************************************)
HealthRequest == [kind |-> "health"]

\* What health_check answers once the self-test get_route gave o.
HealthAnswerInverted(algs, r, o) ==
    IF o.raised # "none"
    THEN [kind |-> "health", req |-> r, code |-> 503, status |-> "unhealthy",
          algorithms_available |-> Absent, default_algorithm |-> Absent]
    ELSE [kind |-> "health", req |-> r, code |-> 200,
          status |-> IF o.feature # NoFeature THEN "degraded" ELSE "healthy",
          algorithms_available |-> Cardinality(algs),
          default_algorithm |-> DEFAULT_BACKEND]

HealthAnswer(algs, r, o) ==
    IF o.raised # "none"
    THEN [kind |-> "health", req |-> r, code |-> 503, status |-> "unhealthy",
          algorithms_available |-> Absent, default_algorithm |-> Absent]
    ELSE [kind |-> "health", req |-> r, code |-> 200,
          status |-> IF o.feature # NoFeature THEN "healthy" ELSE "degraded",
          algorithms_available |-> Cardinality(algs),
          default_algorithm |-> DEFAULT_BACKEND]

\* The self-test: routing_service.get_route(0, 0, 0.01, 0.01, 'direct'); in
\* whole degrees both ends lie in the cell of (0, 0).
HealthSelfTest(algs) == GetRoute(algs, 0, 0, 0, 0, "direct", NoEnv)

\* The handler.
HealthCheck(algs, r) == HealthAnswer(algs, r, HealthSelfTest(algs))

(***************************************************************************)
(* The requests tried.                                                     *)
(***************************************************************************)
LatRaw == {RAbsent, RText, RNum(41), RNum(95)}
LonRaw == {RAbsent, RNum(69), RNum(190)}
LegacyFrom == {SAbsent, SEmpty, SStr(<<RNum(41), RNum(69)>>),
               SStr(<<RNum(95), RNum(69)>>), SStr(<<RText, RNum(69)>>),
               SStr(<<RNum(41)>>)}
LegacyTo == {SAbsent, SStr(<<RNum(42), RNum(70)>>), SStr(<<RNum(41), RNum(69)>>),
             SStr(<<RNum(42), RNum(190)>>), SStr(<<RNum(42), RNum(70), RNum(1)>>)}
AlgorithmParams == {None, "smart", "grid", "curved", "direct", "osm", "pg", "fastest"}

HttpRequest(slat, slon, elat, elon, f, t, a) ==
    [kind |-> "http", start_lat |-> slat, start_lon |-> slon,
     end_lat |-> elat, end_lon |-> elon, from |-> f, to |-> t, algorithm |-> a]

HttpRequests ==
    {HttpRequest(slat, slon, elat, elon, SAbsent, SAbsent, a) :
        slat \in LatRaw, slon \in LonRaw, elat \in LatRaw, elon \in LonRaw,
        a \in AlgorithmParams}
    \cup
    {HttpRequest(slat, RAbsent, RAbsent, RAbsent, f, t, a) :
        slat \in {RAbsent, RNum(41)}, f \in LegacyFrom, t \in LegacyTo,
        a \in AlgorithmParams}
    \cup
    {HttpRequest(RNum(41), RNum(69), RNum(41), RNum(69), f, t, a) :
        f \in LegacyFrom \ {SAbsent}, t \in LegacyTo \ {SAbsent},
        a \in AlgorithmParams}

CallPoints == {Coord(41, 69), Coord(42, 70), Coord(95, 69), Coord(41, 190)}

CallRequests ==
    {[kind |-> "call", start_lat |-> s.lat, start_lon |-> s.lon,
      end_lat |-> e.lat, end_lon |-> e.lon, algorithm |-> a] :
        s \in CallPoints, e \in CallPoints, a \in AlgorithmParams}

(***************************************************************************)
(* Actions of the routing service.                                         *)
(***************************************************************************)
\* A request reaches the constructed service.
Arrive ==
    /\ svc.state = "ready"
    /\ req = NoReq
    /\ resp = NoResp
    /\ req' \in HttpRequests \cup CallRequests
                \cup {AlgorithmsRequest, HealthRequest}
    /\ UNCHANGED <<algorithms, svc, resp, gj, auxVars, deltaVars>>

\* GET /route, start to finish.
HandleRoute ==
    /\ req.kind = "http"
    /\ \E env \in EnvsFor(HttpProvider(algorithms, req)) :
         resp' = AppGetRoute(algorithms, req, env)
    /\ req' = NoReq
    /\ UNCHANGED <<algorithms, svc, gj, auxVars, deltaVars>>

\* A direct call that binds the name it was asked for in the registry.
HandleCallRegistering ==
    /\ req.kind = "call"
    /\ \E env \in EnvsFor(RoutedProvider(algorithms, req.start_lat, req.start_lon,
                                         req.end_lat, req.end_lon, req.algorithm)) :
         resp' = CallGetRoute(algorithms, req, env)
    /\ req' = NoReq
    /\ algorithms' = algorithms \cup ({req.algorithm} \ {None})
    /\ UNCHANGED <<svc, gj, auxVars, deltaVars>>

\* RoutingService.get_route called directly.
HandleCall ==
    /\ req.kind = "call"
    /\ \E env \in EnvsFor(RoutedProvider(algorithms, req.start_lat, req.start_lon,
                                         req.end_lat, req.end_lon, req.algorithm)) :
         resp' = CallGetRoute(algorithms, req, env)
    /\ req' = NoReq
    /\ UNCHANGED <<algorithms, svc, gj, auxVars, deltaVars>>

\* GET /algorithms, start to finish.
HandleAlgorithms ==
    /\ req.kind = "algorithms"
    /\ resp' = AppGetAlgorithms(algorithms, req)
    /\ req' = NoReq
    /\ UNCHANGED <<algorithms, svc, gj, auxVars, deltaVars>>

\* GET /health, start to finish.
HandleHealth ==
    /\ req.kind = "health"
    /\ resp' = HealthCheck(algorithms, req)
    /\ req' = NoReq
    /\ UNCHANGED <<algorithms, svc, gj, auxVars, deltaVars>>

\* The caller takes the answer.
Deliver ==
    /\ resp # NoResp
    /\ resp' = NoResp
    /\ UNCHANGED <<algorithms, svc, req, gj, auxVars, deltaVars>>

(***************************************************************************)
(* The Radar table (radars/models.py) and the operations that write it.    *)
(* Every zone centre lies on the equator, where cos(lat) = 1 and the       *)
(* haversine distance is the wrapped difference of longitudes.             *)
(***************************************************************************)
ZoneIds == {1, 2}

\* The pin location the form stores for each zone.
Site(i) == IF i = 1 THEN -179 ELSE 178

\* Radar.sector_json values.
NoSector == [k |-> "none"]            \* None, '' or {}
TextSector == [k |-> "text"]          \* a string json.loads rejects
Geom(type, rings) == [k |-> "geom", type |-> type, rings |-> rings]

\* The closed ring of the rectangle [x1, x2] x [y1, y2], and the same four
\* corners joined across the diagonals.
RectRing(x1, y1, x2, y2) ==
    <<<<x1, y1>>, <<x2, y1>>, <<x2, y2>>, <<x1, y2>>, <<x1, y1>>>>
BowTieRing(x1, y1, x2, y2) ==
    <<<<x1, y1>>, <<x2, y2>>, <<x2, y1>>, <<x1, y2>>, <<x1, y1>>>>

\* The sector drawn around the pin of zone i.
SiteSector(i) == Geom("Polygon", <<RectRing(Site(i) - 1, -1, Site(i) + 1, 1)>>)

NoRow == [exists |-> FALSE]

Row(i, active, verified, updated_at) ==
    [exists |-> TRUE, id |-> i, center_lat |-> 0, center_lon |-> Site(i),
     active |-> active, verified |-> verified, updated_at |-> updated_at,
     sector_json |-> SiteSector(i)]

NoPrev == [kind |-> "none"]
NoUres == [kind |-> "none"]

\* Time passes.
Tick ==
    /\ ures = NoUres
    /\ clock < MaxClock
    /\ clock' = clock + 1
    /\ UNCHANGED <<mapVars, gj, auxVars, radars, hasGis, client, prev, ures>>

\* radar_add / RadarViewSet.perform_create: save() of a new row; verified
\* defaults to False, active to True, auto_now stamps updated_at.
CreateRadar(i) ==
    /\ ures = NoUres
    /\ ~radars[i].exists
    /\ radars' = [radars EXCEPT ![i] = Row(i, TRUE, FALSE, clock)]
    /\ prev' = NoPrev
    /\ UNCHANGED <<mapVars, gj, auxVars, clock, hasGis, client, ures>>

\* radar_edit (an active row) and the admin change form (any row, any
\* flags): a full save(), so auto_now stamps updated_at.
SaveRadar(i, active, verified) ==
    /\ ures = NoUres
    /\ radars[i].exists
    /\ radars' = [radars EXCEPT ![i] = Row(i, active, verified, clock)]
    /\ prev' = NoPrev
    /\ UNCHANGED <<mapVars, gj, auxVars, clock, hasGis, client, ures>>

\* radar_delete: soft delete of an active row, by save().
DeleteRadar(i) ==
    /\ ures = NoUres
    /\ radars[i].exists /\ radars[i].active
    /\ radars' = [radars EXCEPT ![i] = Row(i, FALSE, radars[i].verified, clock)]
    /\ prev' = NoPrev
    /\ UNCHANGED <<mapVars, gj, auxVars, clock, hasGis, client, ures>>

\* Radar.mark_verified via the admin action mark_as_verified:
\* save(update_fields=['verified', 'verified_by', 'verified_at']) leaves
\* updated_at as stored.
MarkVerified(i) ==
    /\ ures = NoUres
    /\ radars[i].exists /\ ~radars[i].verified
    /\ radars' = [radars EXCEPT ![i].verified = TRUE]
    /\ prev' = NoPrev
    /\ UNCHANGED <<mapVars, gj, auxVars, clock, hasGis, client, ures>>

\* RadarAdmin.mark_as_active / mark_as_inactive: queryset.update(active=...)
\* does not touch updated_at.
MarkActive(i, flag) ==
    /\ ures = NoUres
    /\ radars[i].exists
    /\ radars[i].active # flag
    /\ radars' = [radars EXCEPT ![i].active = flag]
    /\ prev' = NoPrev
    /\ UNCHANGED <<mapVars, gj, auxVars, clock, hasGis, client, ures>>

(***************************************************************************)
(* radars_updates_view (api/views.py).                                     *)
(***************************************************************************)
EARTH_R_PER_DEGREE == 111195     \* 6371000 * pi / 180, metres per degree
BBOX_M_PER_DEGREE == 111000      \* the divisor of deg_lat / deg_lon
DEFAULT_RADIUS_KM == 10
MAX_RADIUS_KM == 2000

Abs(x) == IF x < 0 THEN -x ELSE x

\* haversine(lon1, lat1, lon2, lat2) for two points of the equator, metres.
HaversineEquator(lon1, lon2) ==
    LET d == Abs(lon1 - lon2)
        w == IF d > 180 THEN 360 - d ELSE d
    IN  EARTH_R_PER_DEGREE * w

\* Version strings.
VText(s) == [k |-> "text", s |-> s]
VIso(sec, hasFrac, frac, tz) ==
    [k |-> "iso", sec |-> sec, hasFrac |-> hasFrac, frac |-> frac, tz |-> tz]

\* datetime.isoformat() of an aware UTC datetime: the fraction is printed
\* only when it is not zero; the offset prints as +00:00.
IsoFormat(t) ==
    VIso(t \div TicksPerSecond, (t % TicksPerSecond) # 0, t % TicksPerSecond, "+00:00")

\* .replace('+00:00', 'Z')
ReplaceOffsetByZ(v) == IF v.k = "iso" /\ v.tz = "+00:00" THEN [v EXCEPT !.tz = "Z"] ELSE v

VersionString(t) == ReplaceOffsetByZ(IsoFormat(t))

NoDt == [k |-> "none"]
Dt(t) == [k |-> "dt", t |-> t]

\* datetime.fromisoformat: raises on a trailing Z and on text.
FromIsoFormat(v) ==
    IF v.k = "iso" /\ v.tz = "+00:00"
    THEN Dt(v.sec * TicksPerSecond + (IF v.hasFrac THEN v.frac ELSE 0))
    ELSE NoDt

\* parse_version
ParseVersion(v) ==
    IF v.k = "text" /\ v.s \in {"", "0", "null", "None"} THEN NoDt
    ELSE IF v.k = "iso" /\ v.tz = "Z" THEN FromIsoFormat([v EXCEPT !.tz = "+00:00"])
    ELSE FromIsoFormat(v)

\* q.get('version') or '0'
VersionParam(raw) == IF raw.k = "absent" \/ raw = VText("") THEN VText("0") ELSE raw

\* radius_km from radius_km / radius / '10', defaulted and capped.
RadiusKm(raw) ==
    IF raw.k # "num" THEN DEFAULT_RADIUS_KM
    ELSE IF raw.v <= 0 THEN DEFAULT_RADIUS_KM
    ELSE IF raw.v > MAX_RADIUS_KM THEN MAX_RADIUS_KM
    ELSE raw.v

Rows(table) == {table[i] : i \in {j \in ZoneIds : table[j].exists}}

\* Radar.objects.filter(active=True), verified=True for anonymous callers.
BaseQs(table, authenticated) ==
    {r \in Rows(table) : r.active /\ (authenticated \/ r.verified)}

\* .filter(updated_at__gt=since_dt)
ChangedSinceInclusive(rows, since) ==
    IF since.k = "none" THEN rows ELSE {r \in rows : r.updated_at >= since.t}

ChangedSince(rows, since) ==
    IF since.k = "none" THEN rows ELSE {r \in rows : r.updated_at > since.t}

\* Max('updated_at') / max(z.updated_at for z in zone): None on no rows.
LatestDt(rows) ==
    IF rows = {} THEN NoDt
    ELSE Dt(CHOOSE t \in {r.updated_at : r \in rows} :
                \A r \in rows : r.updated_at <= t)

\* center__distance_lte=(point, Distance(km=radius_km)) on the geography
\* column: the distance on the sphere.
GisZone(rows, lat, lon, radius_km) ==
    {r \in rows : HaversineEquator(lon, r.center_lon) <= radius_km * 1000}

\* The non-GIS zone: the bounding box in degrees, then haversine.
\* deg = radius_m / 111000 (cos0 = 1 on the equator), compared as
\* |delta| * 111000 <= radius_m.
BboxCandidates(rows, lat, lon, radius_km) ==
    {r \in rows :
        /\ Abs(r.center_lat - lat) * BBOX_M_PER_DEGREE <= radius_km * 1000
        /\ Abs(r.center_lon - lon) * BBOX_M_PER_DEGREE <= radius_km * 1000}

PlainZone(rows, lat, lon, radius_km) ==
    {r \in BboxCandidates(rows, lat, lon, radius_km) :
        HaversineEquator(lon, r.center_lon) <= radius_km * 1000}

UpdatesAnswer(q, status, version, rows) ==
    [kind |-> "updates", req |-> q, status |-> status, version |-> version,
     ids |-> {r.id : r \in rows}, count |-> Cardinality(rows)]

\* The view with the latest version taken from the records it returns.
RadarsUpdatesViewLate(table, gis, q) ==
    LET has_point == q.lat.k # "absent" /\ q.lon.k # "absent"
        version_param == VersionParam(q.version)
        since_dt == ParseVersion(version_param)
        base_qs == BaseQs(table, q.authenticated)
    IN  IF has_point /\ (q.lat.k # "num" \/ q.lon.k # "num")
        THEN UpdatesAnswer(q, 400, version_param, {})
        ELSE LET zone == IF ~has_point THEN base_qs
                         ELSE IF gis
                         THEN GisZone(base_qs, q.lat.v, q.lon.v, RadiusKm(q.radius))
                         ELSE PlainZone(base_qs, q.lat.v, q.lon.v, RadiusKm(q.radius))
                 changes == ChangedSince(zone, since_dt)
                 latest_dt == LatestDt(changes)
                 latest_version_str ==
                     IF latest_dt.k = "none" THEN version_param
                     ELSE VersionString(latest_dt.t)
             IN  UpdatesAnswer(q, 200, latest_version_str, changes)

\* The whole view.  q: authenticated, lat, lon, radius (raw values), version.
RadarsUpdatesView(table, gis, q) ==
    LET has_point == q.lat.k # "absent" /\ q.lon.k # "absent"
        version_param == VersionParam(q.version)
        since_dt == ParseVersion(version_param)
        base_qs == BaseQs(table, q.authenticated)
    IN  IF has_point /\ (q.lat.k # "num" \/ q.lon.k # "num")
        THEN UpdatesAnswer(q, 400, version_param, {})
        ELSE LET zone == IF ~has_point THEN base_qs
                         ELSE IF gis
                         THEN GisZone(base_qs, q.lat.v, q.lon.v, RadiusKm(q.radius))
                         ELSE PlainZone(base_qs, q.lat.v, q.lon.v, RadiusKm(q.radius))
                 latest_dt == LatestDt(zone)
                 changes == ChangedSince(zone, since_dt)
                 latest_version_str ==
                     IF latest_dt.k = "none" THEN version_param
                     ELSE VersionString(latest_dt.t)
             IN  UpdatesAnswer(q, 200, latest_version_str, changes)

(***************************************************************************)
(* The delta-sync client and its calls.                                    *)
(***************************************************************************)
Scopes ==
    {[lat |-> RAbsent, lon |-> RAbsent, radius |-> RAbsent],
     [lat |-> RNum(0), lon |-> RNum(179), radius |-> RNum(300)],
     [lat |-> RNum(0), lon |-> RNum(179), radius |-> RAbsent],
     [lat |-> RText, lon |-> RNum(179), radius |-> RAbsent]}

Clients ==
    {[authenticated |-> a, lat |-> s.lat, lon |-> s.lon, radius |-> s.radius] :
        a \in BOOLEAN, s \in Scopes}

VersionsTried ==
    {[k |-> "absent"], VText("0"), VText("yesterday")}
    \cup {VersionString(t) : t \in 0..MaxClock}

\* One GET of radars_updates_view by the client.
UpdatesCall ==
    /\ ures = NoUres
    /\ \E v \in VersionsTried :
         LET q == [authenticated |-> client.authenticated, lat |-> client.lat,
                   lon |-> client.lon, radius |-> client.radius, version |-> v]
             a == RadarsUpdatesView(radars, hasGis, q)
         IN  ures' = [kind |-> "updates", req |-> a.req, status |-> a.status,
                      version |-> a.version, ids |-> a.ids, count |-> a.count,
                      repeat |-> (prev.kind = "prev" /\ v = prev.version)]
    /\ UNCHANGED <<mapVars, gj, auxVars, radars, clock, hasGis, client, prev>>

\* The client takes the answer and keeps its version.
TakeUpdates ==
    /\ ures.kind = "updates"
    /\ prev' = IF ures.status = 200
               THEN [kind |-> "prev", version |-> ures.version]
               ELSE NoPrev
    /\ ures' = NoUres
    /\ UNCHANGED <<mapVars, gj, auxVars, radars, clock, hasGis, client>>

(***************************************************************************)
(* Route chain of the Django API (api/services/routing.py).  Points are    *)
(* (lon, lat) tuples.  What each provider answers is an input of the call. *)
(***************************************************************************)
\* The routing keys of django.conf.settings, each as set / not set, and
\* whether shapely can be imported.
SettingsOff ==
    [remote_osrm |-> FALSE, use_pgrouting |-> FALSE, custom_url |-> FALSE,
     routing_provider |-> "fallback", routing_base_url |-> FALSE,
     shapely |-> TRUE]

SettingsTried ==
    [remote_osrm : BOOLEAN, use_pgrouting : BOOLEAN, custom_url : BOOLEAN,
     routing_provider : {"fallback", "osrm"}, routing_base_url : BOOLEAN,
     shapely : BOOLEAN]

\* A GeoJSON Feature with properties.summary.provider and a LineString.
DjFeature(provider, coords) ==
    [type |-> "Feature", provider |-> provider,
     geometry |-> [type |-> "LineString", coordinates |-> coords]]

\* Outcome of one provider call.
Gave(feature) == [k |-> "feature", feature |-> feature, backends |-> <<>>]
GaveNone == [k |-> "none", backends |-> <<>>]
Threw(exc) == [k |-> "raise", exc |-> exc, backends |-> <<>>]

\* The geometries a remote engine or the database returns.
DjPoints == {<<177, 0>>, <<179, 0>>}
DjGeometries == SeqsOf(DjPoints, 1, 2)

\* ExternalOSRMService.get_route
ExternalOsrmGetRoute(coordinates, env) ==
    IF Len(coordinates) < 2 THEN Threw("ValueError")
    ELSE IF env.k = "fail" THEN Threw("RuntimeError")
    ELSE Gave(DjFeature("osrm-remote", env.coords))

\* RoutingService._route_pgr(start, end)
RoutePgr(start, end, env) ==
    IF env.k = "not_postgres" THEN GaveNone
    ELSE IF env.k = "connect_failed" THEN Threw("OperationalError")
    ELSE IF env.k = "schema_missing" THEN Threw("RuntimeError")
    ELSE IF env.k \in {"no_vertex", "no_path"} THEN GaveNone
    ELSE IF Len(env.coords) = 0 THEN Gave(DjFeature("pgRouting", <<>>))
    ELSE Gave(DjFeature("pgRouting", PinEndpoints(env.coords, start, end)))

\* algorithm_map.get(profile, profile) or 'smart'
CustomAlgorithm(profile) ==
    IF profile \in {"driving", "driving-traffic"} THEN "smart"
    ELSE IF profile = "walking" THEN "direct"
    ELSE IF profile = "cycling" THEN "grid"
    ELSE profile

\* The request _route_custom sends to the map service: from / to as
\* "lat,lon" of the first and last coordinate.
CustomRequest(coordinates, algorithm) ==
    HttpRequest(RAbsent, RAbsent, RAbsent, RAbsent,
                SStr(<<RNum(coordinates[1][2]), RNum(coordinates[1][1])>>),
                SStr(<<RNum(coordinates[Len(coordinates)][2]),
                       RNum(coordinates[Len(coordinates)][1])>>),
                algorithm)

\* What _route_custom makes of the response a: raise_for_status, then the
\* geometry.
CustomResponse(a) ==
    IF a.status # 200
    THEN [k |-> "raise", exc |-> "HTTPError", backends |-> a.invoked]
    ELSE IF Len(a.feature.geometry.coordinates) = 0
    THEN [k |-> "raise", exc |-> "RuntimeError", backends |-> a.invoked]
    ELSE [k |-> "feature",
          feature |-> DjFeature("radar2-custom", a.feature.geometry.coordinates),
          backends |-> a.invoked]

\* RoutingService._route_custom: GET {base_url}/route of the map service.
RouteCustom(algs, coordinates, algorithm, env) ==
    IF Len(coordinates) < 2 THEN Threw("ValueError")
    ELSE IF env.k = "unreachable" THEN Threw("ConnectionError")
    ELSE CustomResponse(AppGetRoute(algs, CustomRequest(coordinates, algorithm),
                                    env.backend))

\* RoutingService._route_osrm
RouteOsrm(coordinates, env) ==
    IF env.k = "fail" THEN Threw("RuntimeError")
    ELSE Gave(DjFeature("osrm", env.coords))

\* The state of the chain between two providers.
ChainStart == [done |-> FALSE, feature |-> NoFeature, invoked |-> <<>>,
               failed |-> <<>>, backends |-> <<>>]

\* `if configured: try: return provider(...) except Exception: pass`, with
\* a None result passing on as well.
AttemptRetrying(acc, configured, name, outcome) ==
    IF acc.done \/ ~configured THEN acc
    ELSE IF outcome.k = "feature"
    THEN [done |-> TRUE, feature |-> outcome.feature,
          invoked |-> Append(acc.invoked, name), failed |-> acc.failed,
          backends |-> acc.backends \o outcome.backends]
    ELSE [done |-> FALSE, feature |-> NoFeature,
          invoked |-> acc.invoked \o <<name, name>>,
          failed |-> Append(acc.failed, name),
          backends |-> acc.backends \o outcome.backends]

Attempt(acc, configured, name, outcome) ==
    IF acc.done \/ ~configured THEN acc
    ELSE IF outcome.k = "feature"
    THEN [done |-> TRUE, feature |-> outcome.feature,
          invoked |-> Append(acc.invoked, name), failed |-> acc.failed,
          backends |-> acc.backends \o outcome.backends]
    ELSE [done |-> FALSE, feature |-> NoFeature,
          invoked |-> Append(acc.invoked, name),
          failed |-> Append(acc.failed, name),
          backends |-> acc.backends \o outcome.backends]

\* The straight line(s) through the given coordinates, in order.
StraightLineEnds(st, coordinates) ==
    DjFeature(st.routing_provider,
              <<coordinates[1], coordinates[Len(coordinates)]>>)

StraightLine(st, coordinates) == DjFeature(st.routing_provider, coordinates)

\* The end of get_route_coords: the straight line when no provider
\* returned.
OrStraightLine(st, coordinates, c) ==
    IF c.done THEN c
    ELSE [c EXCEPT !.done = TRUE, !.feature = StraightLine(st, coordinates)]

\* RoutingService.get_route_coords from the first provider on; acc is the
\* chain so far.
GetRouteCoords(st, algs, coordinates, profile, env, acc) ==
    IF Len(coordinates) < 2
    THEN [raised |-> "ValueError", chain |-> acc]
    ELSE LET c1 == Attempt(acc, st.use_pgrouting, "pgRouting",
                       RoutePgr(coordinates[1], coordinates[Len(coordinates)],
                                env.pgr))
             c2 == Attempt(c1, st.custom_url, "custom",
                       RouteCustom(algs, coordinates, CustomAlgorithm(profile),
                                   env.custom))
             c3 == Attempt(c2, st.routing_provider = "osrm" /\ st.routing_base_url,
                       "osrm", RouteOsrm(coordinates, env.osrm))
         IN  [raised |-> "none", chain |-> OrStraightLine(st, coordinates, c3)]

\* The route of route_view and radars_impacted_view: the remote OSRM when
\* configured, else get_route_coords.
AfterRemote(st, algs, coordinates, profile, env, c0) ==
    IF c0.done THEN [raised |-> "none", chain |-> c0]
    ELSE GetRouteCoords(st, algs, coordinates, profile, env, c0)

BuildRoute(st, algs, coordinates, profile, env) ==
    AfterRemote(st, algs, coordinates, profile, env,
                Attempt(ChainStart, st.remote_osrm, "osrm-remote",
                        ExternalOsrmGetRoute(coordinates, env.remote)))

(***************************************************************************)
(* route_view and radars_impacted_view (api/views.py).                     *)
(***************************************************************************)
\* One ';'-separated part of coords: "lon,lat", blank, or anything that
\* does not split into two floats.
CPair(lon, lat) == [k |-> "pair", lon |-> lon, lat |-> lat]
CBlank == [k |-> "blank"]
CBad == [k |-> "bad"]
CList(parts) == [k |-> "list", parts |-> parts]

\* [p.strip() for p in coords_param.split(';') if p.strip()]
RECURSIVE NonBlankParts(_)
NonBlankParts(parts) ==
    IF parts = <<>> THEN <<>>
    ELSE IF Head(parts).k = "blank" THEN NonBlankParts(Tail(parts))
    ELSE <<Head(parts)>> \o NonBlankParts(Tail(parts))

\* The coordinates of the request, or the 400 of the parsing code.
\* q.coords: SAbsent, SEmpty or CList; q.from, q.to: SAbsent, SEmpty, CPair
\* or CBad.
ParseCoordinates(q) ==
    IF q.coords.k = "list"
    THEN LET parts == NonBlankParts(q.coords.parts)
         IN  IF \E i \in 1..Len(parts) : parts[i].k # "pair"
             THEN [k |-> "bad_request"]
             ELSE [k |-> "ok",
                   coordinates |-> [i \in 1..Len(parts) |->
                                        <<parts[i].lon, parts[i].lat>>]]
    ELSE IF q.from.k \in {"absent", "empty"} \/ q.to.k \in {"absent", "empty"}
    THEN [k |-> "bad_request"]
    ELSE IF q.from.k # "pair" \/ q.to.k # "pair"
    THEN [k |-> "bad_request"]
    ELSE [k |-> "ok", coordinates |-> <<<<q.from.lon, q.from.lat>>,
                                        <<q.to.lon, q.to.lat>>>>]

\* request.query_params.get('profile') or 'driving'
Profile(raw) == IF raw.k = "str" THEN raw.s ELSE "driving"
PStr(s) == [k |-> "str", s |-> s]

DjAnswer(kind, q, status, chain, ids) ==
    [kind |-> kind, req |-> q, status |-> status, feature |-> chain.feature,
     invoked |-> chain.invoked, failed |-> chain.failed,
     backends |-> chain.backends, ids |-> ids]

\* An exception leaving a view is answered 500.
Raised500(kind, q, b) ==
    DjAnswer(kind, q, 500, [b.chain EXCEPT !.feature = NoFeature], {})

\* route_view once the route b is built.
RouteViewAnswer(q, b) ==
    IF b.raised # "none" THEN Raised500("route", q, b)
    ELSE DjAnswer("route", q, 200, b.chain, {})

\* route_view
RouteView(st, algs, q, env) ==
    LET p == ParseCoordinates(q)
    IN  IF p.k # "ok" THEN DjAnswer("route", q, 400, ChainStart, {})
        ELSE RouteViewAnswer(q, BuildRoute(st, algs, p.coordinates,
                                           Profile(q.profile), env))

(***************************************************************************)
(* Plane geometry of the views.  Distances are in metres; coordinates are  *)
(* integers in 1/scale of a degree.  Near the equator the sphere is the    *)
(* plane with 111195 m per degree both ways.                               *)
(***************************************************************************)
RECURSIVE ISqrtBetween(_, _, _)
ISqrtBetween(n, lo, hi) ==
    IF lo >= hi THEN lo
    ELSE LET mid == (lo + hi + 1) \div 2
         IN  IF mid * mid <= n THEN ISqrtBetween(n, mid, hi)
             ELSE ISqrtBetween(n, lo, mid - 1)

\* floor(sqrt(n)) for 0 <= n < 2^31
ISqrt(n) == ISqrtBetween(n, 0, 46340)

\* 100 * sqrt(a^2 + b^2), exact when a or b is 0, else rounded down.
Hypot100(a, b) ==
    IF a = 0 THEN 100 * Abs(b)
    ELSE IF b = 0 THEN 100 * Abs(a)
    ELSE ISqrt(10000 * (a * a + b * b))

\* floor(EARTH_R_PER_DEGREE * h / d), the whole multiples of d taken first
\* when the product would leave 32 bits.
MetresOf(h, d) ==
    IF h <= 19000 THEN (EARTH_R_PER_DEGREE * h) \div d
    ELSE EARTH_R_PER_DEGREE * (h \div d) + (EARTH_R_PER_DEGREE * (h % d)) \div d

\* Length in metres of the offset (a, b) given in 1/scale degrees.
PlanarMetres(a, b, scale) == MetresOf(Hypot100(a, b), 100 * scale)

Max2(a, b) == IF a >= b THEN a ELSE b
Min2(a, b) == IF a <= b THEN a ELSE b

SeqMax(f) == CHOOSE x \in {f[i] : i \in 1..Len(f)} : \A i \in 1..Len(f) : f[i] <= x
SeqMin(f) == CHOOSE x \in {f[i] : i \in 1..Len(f)} : \A i \in 1..Len(f) : f[i] >= x

(***************************************************************************)
(* Radar.sector_json and _compute_impacted_radars (api/views.py).          *)
(***************************************************************************)
\* shapely's Polygon(shell).is_valid for a ring of four corners: closed,
\* every edge parallel to an axis, the corners distinct.
RingIsValid(shell) ==
    /\ Len(shell) = 5
    /\ shell[1] = shell[5]
    /\ Cardinality({shell[i] : i \in 1..4}) = 4
    /\ \A i \in 1..4 :
          \/ (shell[i][1] = shell[i + 1][1] /\ shell[i][2] # shell[i + 1][2])
          \/ (shell[i][1] # shell[i + 1][1] /\ shell[i][2] = shell[i + 1][2])

\* route_buf.intersects(poly_xy) for a route along one parallel and a valid
\* rectangle: the gap between the rectangle and the stretch of the route is
\* at most buffer_m.
RouteBufferIntersects(coords, buffer_m, shell) ==
    LET lons == [i \in 1..Len(coords) |-> coords[i][1]]
        lats == [i \in 1..Len(coords) |-> coords[i][2]]
        xs == [i \in 1..Len(shell) |-> shell[i][1]]
        ys == [i \in 1..Len(shell) |-> shell[i][2]]
        dx == Max2(0, Max2(SeqMin(xs) - SeqMax(lons), SeqMin(lons) - SeqMax(xs)))
        dy == Max2(0, Max2(SeqMin(ys) - SeqMax(lats), SeqMin(lats) - SeqMax(ys)))
    IN  PlanarMetres(dx, dy, 1) <= buffer_m

\* The body of the loop for one zone: "skip" on every `continue`, else
\* whether the zone is appended.
ZoneOutcome(sector, coords, buffer_m) ==
    IF sector.k = "none" THEN "skip"
    ELSE IF sector.k = "text" THEN "skip"
    ELSE IF sector.type # "Polygon" THEN "skip"
    ELSE IF Len(sector.rings) = 0 THEN "skip"
    ELSE LET shell == sector.rings[1]
         IN  IF \E i \in 1..Len(shell) : Len(shell[i]) # 2 THEN "skip"
             ELSE IF Len(shell) < 3 THEN "skip"
             ELSE IF ~RingIsValid(shell) THEN "skip"
             ELSE IF RouteBufferIntersects(coords, buffer_m, shell) THEN "hit"
             ELSE "miss"

\* `for r in qs:` over the rows in queryset order.
RECURSIVE ImpactedLoopStopping(_, _, _)
ImpactedLoopStopping(rows, coords, buffer_m) ==
    IF rows = <<>> THEN <<>>
    ELSE LET r == Head(rows)
             o == ZoneOutcome(r.sector_json, coords, buffer_m)
         IN  IF o = "skip" THEN <<>>
             ELSE (IF o = "hit" THEN <<r.id>> ELSE <<>>)
                  \o ImpactedLoopStopping(Tail(rows), coords, buffer_m)

RECURSIVE ImpactedLoop(_, _, _)
ImpactedLoop(rows, coords, buffer_m) ==
    IF rows = <<>> THEN <<>>
    ELSE LET r == Head(rows)
             o == ZoneOutcome(r.sector_json, coords, buffer_m)
         IN  (IF o = "hit" THEN <<r.id>> ELSE <<>>)
             \o ImpactedLoop(Tail(rows), coords, buffer_m)

\* Meta.ordering = ['-created_at']: the rows of a set, newest (largest id)
\* first.
RECURSIVE NewestFirst(_)
NewestFirst(rows) ==
    IF rows = {} THEN <<>>
    ELSE LET r == CHOOSE x \in rows : \A y \in rows : y.id <= x.id
         IN  <<r>> \o NewestFirst(rows \ {r})

\* qs of _compute_impacted_radars: active, verified for anonymous callers,
\* centre inside the bounding box of the route widened by buffer_m
\* (cos0 = 1: every route met by a non-empty table runs along the equator).
ImpactedQs(table, authenticated, coords, buffer_m) ==
    LET lons == [i \in 1..Len(coords) |-> coords[i][1]]
        lats == [i \in 1..Len(coords) |-> coords[i][2]]
    IN  {r \in Rows(table) :
            /\ r.active
            /\ (authenticated \/ r.verified)
            /\ (SeqMin(lats) - r.center_lat) * BBOX_M_PER_DEGREE <= buffer_m
            /\ (r.center_lat - SeqMax(lats)) * BBOX_M_PER_DEGREE <= buffer_m
            /\ (SeqMin(lons) - r.center_lon) * BBOX_M_PER_DEGREE <= buffer_m
            /\ (r.center_lon - SeqMax(lons)) * BBOX_M_PER_DEGREE <= buffer_m}

\* _compute_impacted_radars: the ids of the impacted list, in order.  With
\* HAS_GIS the Radar model has no center_lat / center_lon column and the
\* filter raises FieldError.
ComputeImpactedRadars(table, gis, st, authenticated, feature, buffer_m) ==
    LET coords == feature.geometry.coordinates
    IN  IF ~st.shapely THEN [raised |-> "none", ids |-> <<>>]
        ELSE IF Len(coords) < 2 THEN [raised |-> "none", ids |-> <<>>]
        ELSE IF gis THEN [raised |-> "FieldError", ids |-> <<>>]
        ELSE [raised |-> "none",
              ids |-> ImpactedLoop(
                          NewestFirst(ImpactedQs(table, authenticated, coords,
                                                 buffer_m)),
                          coords, buffer_m)]

DEFAULT_BUFFER_M == 5
FALLBACK_BUFFER_M == 50

\* buffer: '5' when absent, 50 when not a number or not positive.
BufferM(raw) ==
    IF raw.k = "absent" THEN DEFAULT_BUFFER_M
    ELSE IF raw.k # "num" THEN FALLBACK_BUFFER_M
    ELSE IF raw.v <= 0 THEN FALLBACK_BUFFER_M
    ELSE raw.v

SeqToSet(f) == {f[i] : i \in 1..Len(f)}

\* radars_impacted_view once the impacted list c is computed.
ImpactedListed(q, chain, c) ==
    IF c.raised # "none" THEN DjAnswer("impacted", q, 500, chain, {})
    ELSE DjAnswer("impacted", q, 200, chain, SeqToSet(c.ids))

\* radars_impacted_view once the route b is built.
ImpactedViewAnswer(table, gis, st, q, b) ==
    IF b.raised # "none" THEN Raised500("impacted", q, b)
    ELSE ImpactedListed(q, b.chain,
             ComputeImpactedRadars(table, gis, st, q.authenticated,
                                   b.chain.feature, BufferM(q.buffer)))

\* radars_impacted_view
RadarsImpactedView(table, gis, st, algs, q, env) ==
    LET p == ParseCoordinates(q)
    IN  IF p.k # "ok" THEN DjAnswer("impacted", q, 400, ChainStart, {})
        ELSE ImpactedViewAnswer(table, gis, st, q,
                 BuildRoute(st, algs, p.coordinates, Profile(q.profile), env))

(***************************************************************************)
(* radars_nearby_view (api/views.py).  The query point lies on the         *)
(* equator (cos0 = 1); coordinates are integers in 1/scale of a degree.    *)
(***************************************************************************)
DEFAULT_LIMIT == 10
LIMIT_MAX == 100
DEFAULT_WINDOW_M == 5000

\* limit = max(1, min(100, int(limit))), 10 when int() raises or no limit
\* is given.
NearbyLimit(raw) ==
    IF raw.k # "num" THEN DEFAULT_LIMIT
    ELSE Max2(1, Min2(LIMIT_MAX, raw.v))

NoDistance == [k |-> "none"]

\* max_distance: None when absent, not a number or not positive.
NearbyMaxDistance(raw) ==
    IF raw.k # "num" THEN NoDistance
    ELSE IF raw.v <= 0 THEN NoDistance
    ELSE [k |-> "m", v |-> raw.v]

\* haversine(plon, plat, lon, lat), in whole metres: the great circle along
\* the equator, the plane for nearby points off it.
NearbyHaversine(plon, plat, lon, lat, scale) ==
    LET d == Abs(lon - plon)
        w == IF d > 180 * scale THEN 360 * scale - d ELSE d
    IN  PlanarMetres(lat - plat, w, scale)

\* qs of radars_nearby_view: active, verified for anonymous callers, centre
\* inside the window of md metres around the point.
NearbyQsUnfiltered(rows, authenticated, plon, plat, md, scale) ==
    {r \in rows :
        /\ r.active
        /\ Abs(r.center_lat - plat) * BBOX_M_PER_DEGREE <= md * scale
        /\ Abs(r.center_lon - plon) * BBOX_M_PER_DEGREE <= md * scale}

NearbyQs(rows, authenticated, plon, plat, md, scale) ==
    {r \in rows :
        /\ r.active
        /\ (authenticated \/ r.verified)
        /\ Abs(r.center_lat - plat) * BBOX_M_PER_DEGREE <= md * scale
        /\ Abs(r.center_lon - plon) * BBOX_M_PER_DEGREE <= md * scale}

\* The loop building items: one entry per candidate within max_distance.
RECURSIVE NearbyItems(_, _, _, _, _)
NearbyItems(rows, plon, plat, max_distance, scale) ==
    IF rows = <<>> THEN <<>>
    ELSE LET r == Head(rows)
             d == NearbyHaversine(plon, plat, r.center_lon, r.center_lat, scale)
             rest == NearbyItems(Tail(rows), plon, plat, max_distance, scale)
         IN  IF max_distance.k = "none" \/ d <= max_distance.v
             THEN <<[id |-> r.id, verified |-> r.verified, active |-> r.active,
                     distance_m |-> d]>> \o rest
             ELSE rest

\* Index of the first entry with the smallest distance_m.
FirstMin(items) ==
    CHOOSE i \in 1..Len(items) :
        /\ \A j \in 1..Len(items) : items[i].distance_m <= items[j].distance_m
        /\ \A j \in 1..(i - 1) : items[j].distance_m > items[i].distance_m

Without(items, i) == SubSeq(items, 1, i - 1) \o SubSeq(items, i + 1, Len(items))

\* items.sort(key=distance_m): ascending, equal keys keep their order.
RECURSIVE SortByDistance(_)
SortByDistance(items) ==
    IF items = <<>> THEN <<>>
    ELSE LET i == FirstMin(items)
         IN  <<items[i]>> \o SortByDistance(Without(items, i))

\* items[:limit]
TruncateLoose(items, limit) == items

Truncate(items, limit) == SubSeq(items, 1, Min2(limit, Len(items)))

NearbyAnswer(q, status, results) ==
    [kind |-> "nearby", req |-> q, status |-> status, results |-> results,
     ids |-> {results[i].id : i \in 1..Len(results)}]

\* The whole view.  q: authenticated, point, limit, max_distance.  With
\* HAS_GIS the Radar model has no center_lat / center_lon column and the
\* filter raises FieldError.
RadarsNearbyView(rows, gis, q, scale) ==
    LET limit == NearbyLimit(q.limit)
        max_distance == NearbyMaxDistance(q.max_distance)
        md == IF max_distance.k = "none" THEN DEFAULT_WINDOW_M ELSE max_distance.v
    IN  IF q.point.k \in {"absent", "empty"} THEN NearbyAnswer(q, 400, <<>>)
        ELSE IF q.point.k # "pair" THEN NearbyAnswer(q, 400, <<>>)
        ELSE IF gis THEN NearbyAnswer(q, 500, <<>>)
        ELSE LET qs == NearbyQs(rows, q.authenticated, q.point.lon, q.point.lat,
                                md, scale)
                 items == NearbyItems(NewestFirst(qs), q.point.lon, q.point.lat,
                                      max_distance, scale)
             IN  NearbyAnswer(q, 200, Truncate(SortByDistance(items), limit))

(***************************************************************************)
(* GridRouter.generate_route, computed.  Coordinates are integers in       *)
(* 1/scale of a degree; the start lies on the equator (cos(start.lat) = 1).*)
(* An interior point is a fraction of the way: its lat and lon are         *)
(* numerators over den.                                                    *)
(***************************************************************************)
MIN_ROUTE_DISTANCE == 50      \* DISTANCE_THRESHOLDS['min_route_distance'], metres
BLOCK_SIZE_M == 500           \* GRID_ROUTING['block_size_km'] * 1000
GRID_MAX_STEPS == 15          \* range(1, min(total_blocks, 15))
MILLI == 1000                 \* thousandths of a degree

GridPoint(lat, lon, den) == [lat |-> lat, lon |-> lon, den |-> den]
Whole(c) == GridPoint(c.lat, c.lon, 1)

\* total_blocks = int(blocks_lat + blocks_lon)
TotalBlocks(start, end, block_m, scale) ==
    ((Abs(end.lat - start.lat) + Abs(end.lon - start.lon)) * BBOX_M_PER_DEGREE)
        \div (block_m * scale)

\* The body of the loop for i .. last - 1; cur is the point appended last,
\* over the denominator tb.
RECURSIVE GridLoopInclusive(_, _, _, _, _, _)
GridLoopInclusive(i, last, cur, start, end, tb) ==
    IF i > last THEN <<>>
    ELSE LET new_coord ==
                 IF i % 2 = 1
                 THEN GridPoint(cur.lat,
                                start.lon * tb + (end.lon - start.lon) * i, tb)
                 ELSE GridPoint(start.lat * tb + (end.lat - start.lat) * i,
                                cur.lon, tb)
         IN  <<new_coord>> \o GridLoopInclusive(i + 1, last, new_coord, start, end, tb)

RECURSIVE GridLoop(_, _, _, _, _, _)
GridLoop(i, last, cur, start, end, tb) ==
    IF i >= last THEN <<>>
    ELSE LET new_coord ==
                 IF i % 2 = 1
                 THEN GridPoint(cur.lat,
                                start.lon * tb + (end.lon - start.lon) * i, tb)
                 ELSE GridPoint(start.lat * tb + (end.lat - start.lat) * i,
                                cur.lon, tb)
         IN  <<new_coord>> \o GridLoop(i + 1, last, new_coord, start, end, tb)

GridRoute(start, end, block_m, scale) ==
    LET distance == PlanarMetres(end.lat - start.lat, end.lon - start.lon, scale)
        total_blocks == TotalBlocks(start, end, block_m, scale)
    IN  IF distance < MIN_ROUTE_DISTANCE THEN <<Whole(start), Whole(end)>>
        ELSE IF total_blocks <= 2 THEN <<Whole(start), Whole(end)>>
        ELSE <<Whole(start)>>
             \o GridLoop(1, Min2(total_blocks, GRID_MAX_STEPS),
                         GridPoint(start.lat * total_blocks,
                                   start.lon * total_blocks, total_blocks),
                         start, end, total_blocks)
             \o <<Whole(end)>>

(***************************************************************************)
(* What the providers of the Django chain answer during one request.       *)
(***************************************************************************)
IdleEnv == [k |-> "idle", coords |-> <<>>, backend |-> NoEnv]

RemoteEnvs ==
    {[k |-> "fail", coords |-> <<>>]}
    \cup {[k |-> "ok", coords |-> g] : g \in DjGeometries}

PgrEnvs ==
    {[k |-> e, coords |-> <<>>] :
        e \in {"not_postgres", "connect_failed", "schema_missing",
               "no_vertex", "no_path"}}
    \cup {[k |-> "geometry", coords |-> g] : g \in SeqsOf(DjPoints, 0, 2)}

CustomEnvs(algs, coordinates, profile) ==
    {[k |-> "unreachable", backend |-> NoEnv]}
    \cup (IF Len(coordinates) < 2 THEN {}
          ELSE {[k |-> "reached", backend |-> b] :
                   b \in EnvsFor(HttpProvider(algs,
                            CustomRequest(coordinates, CustomAlgorithm(profile))))})

OsrmEnvs == RemoteEnvs

\* One choice for every provider the chain reaches; a provider that is not
\* configured or not reached is idle.
ChainEnvs(st, algs, coordinates, profile) ==
    LET R == IF st.remote_osrm THEN RemoteEnvs ELSE {IdleEnv}
        P(r) == IF \/ (st.remote_osrm
                       /\ ExternalOsrmGetRoute(coordinates, r).k = "feature")
                   \/ ~st.use_pgrouting
                THEN {IdleEnv} ELSE PgrEnvs
        C(p) == IF p.k = "geometry" \/ ~st.custom_url
                THEN {IdleEnv} ELSE CustomEnvs(algs, coordinates, profile)
        O(p, c) == IF \/ p.k = "geometry"
                      \/ (c.k = "reached"
                          /\ RouteCustom(algs, coordinates,
                                 CustomAlgorithm(profile), c).k = "feature")
                      \/ ~(st.routing_provider = "osrm" /\ st.routing_base_url)
                   THEN {IdleEnv} ELSE OsrmEnvs
    IN  UNION {UNION {UNION {
            {[remote |-> r, pgr |-> p, custom |-> c, osrm |-> o] : o \in O(p, c)}
                : c \in C(p)} : p \in P(r)} : r \in R}

(***************************************************************************)
(* The requests tried on the Django API.                                   *)
(***************************************************************************)
PointA == CPair(177, 0)
PointB == CPair(179, 0)

CoordinateShapes ==
    {[coords |-> SAbsent, from |-> SAbsent, to |-> SAbsent],
     [coords |-> SAbsent, from |-> PointA, to |-> SAbsent],
     [coords |-> SAbsent, from |-> PointA, to |-> PointB],
     [coords |-> SAbsent, from |-> CBad, to |-> PointB],
     [coords |-> SEmpty, from |-> PointA, to |-> PointB],
     [coords |-> CList(<<PointA, PointB>>), from |-> SAbsent, to |-> SAbsent],
     [coords |-> CList(<<PointA, CBlank, PointB, PointA>>),
      from |-> SAbsent, to |-> SAbsent],
     [coords |-> CList(<<PointA>>), from |-> SAbsent, to |-> SAbsent],
     [coords |-> CList(<<CBlank>>), from |-> SAbsent, to |-> SAbsent],
     [coords |-> CList(<<PointA, CBad>>), from |-> SAbsent, to |-> SAbsent]}

ProfilesTried == {RAbsent, PStr("walking"), PStr("osm")}

DjRequest(authenticated, shape, profile, buffer) ==
    [authenticated |-> authenticated, coords |-> shape.coords,
     from |-> shape.from, to |-> shape.to, profile |-> profile,
     buffer |-> buffer]

RouteRequests(authenticated) ==
    {DjRequest(authenticated, s, p, RAbsent) :
        s \in CoordinateShapes, p \in ProfilesTried}

ImpactedRequests(authenticated) ==
    {DjRequest(authenticated, s, p, b) :
        s \in CoordinateShapes, p \in ProfilesTried, b \in {RAbsent, RNum(0)}}

\* Routes past each pin, and one past both.
ImpactedScopes(authenticated) ==
    {DjRequest(authenticated, [coords |-> SAbsent, from |-> f, to |-> t],
               RAbsent, b) :
        f \in {CPair(-179, 0), CPair(177, 0)}, t \in {CPair(179, 0)},
        b \in {RAbsent, RText}}

NearbyScopes(authenticated) ==
    {[authenticated |-> authenticated, point |-> p, limit |-> l,
      max_distance |-> m] :
        p \in {CPair(0, 0), CPair(178, 0)}, l \in {RAbsent, RNum(1)},
        m \in {RAbsent, RNum(20000000)}}

(***************************************************************************)
(* Calls of the Django API.                                                *)
(***************************************************************************)
\* One GET of route_view.
RouteCall ==
    /\ ures = NoUres
    /\ \E q \in RouteRequests(client.authenticated) :
         LET p == ParseCoordinates(q)
             coordinates == IF p.k = "ok" THEN p.coordinates ELSE <<>>
         IN  \E env \in ChainEnvs(settings, algorithms, coordinates,
                                  Profile(q.profile)) :
                 ures' = RouteView(settings, algorithms, q, env)
    /\ UNCHANGED <<mapVars, gj, auxVars, radars, clock, hasGis, client, prev>>

\* One GET of radars_impacted_view.
ImpactedCall(q) ==
    /\ ures = NoUres
    /\ LET p == ParseCoordinates(q)
           coordinates == IF p.k = "ok" THEN p.coordinates ELSE <<>>
       IN  \E env \in ChainEnvs(settings, algorithms, coordinates,
                                Profile(q.profile)) :
               ures' = RadarsImpactedView(radars, hasGis, settings, algorithms,
                                          q, env)
    /\ UNCHANGED <<mapVars, gj, auxVars, radars, clock, hasGis, client, prev>>

\* One GET of radars_nearby_view on the table, in whole degrees.
NearbyCall ==
    /\ ures = NoUres
    /\ \E q \in NearbyScopes(client.authenticated) :
         ures' = RadarsNearbyView(Rows(radars), hasGis, q, 1)
    /\ UNCHANGED <<mapVars, gj, auxVars, radars, clock, hasGis, client, prev>>

\* The caller takes the answer of route_view, radars_impacted_view or
\* radars_nearby_view.
TakeAnswer ==
    /\ ures.kind \in {"route", "impacted", "nearby"}
    /\ ures' = NoUres
    /\ UNCHANGED <<mapVars, gj, auxVars, radars, clock, hasGis, client, prev>>

(***************************************************************************)
(* radars_nearby_view and GridRouter.generate_route on drawn inputs, in    *)
(* thousandths of a degree.                                                *)
(***************************************************************************)
MaxNearZones == 3      \* rows of the table given to radars_nearby_view
MaxGridSpan == 20      \* largest offset of the end from the start

NearZoneIds == 1..MaxNearZones

\* Pins 1112 m east, 5671 m north-east (inside the 5 km window) and 5115 m
\* north (outside it); further pins lie west.
NearSite(i) ==
    IF i = 1 THEN [lat |-> 0, lon |-> 10]
    ELSE IF i = 2 THEN [lat |-> 24, lon |-> 45]
    ELSE IF i = 3 THEN [lat |-> 46, lon |-> 0]
    ELSE [lat |-> 0, lon |-> -(10 * i)]

NearRow(i, active, verified) ==
    [exists |-> TRUE, id |-> i, center_lat |-> NearSite(i).lat,
     center_lon |-> NearSite(i).lon, active |-> active, verified |-> verified]

NearTables ==
    [NearZoneIds -> {NoRow} \cup {[exists |-> TRUE, active |-> a, verified |-> v] :
                                     a \in BOOLEAN, v \in BOOLEAN}]

NearRows(table) ==
    {NearRow(i, table[i].active, table[i].verified) :
        i \in {j \in NearZoneIds : table[j].exists}}

NearbyRequests ==
    {[authenticated |-> a, point |-> CPair(0, 0), limit |-> l, max_distance |-> m] :
        a \in BOOLEAN,
        l \in {RAbsent, RText, RNum(0), RNum(1), RNum(2)},
        m \in {RAbsent, RText, RNum(0), RNum(3000), RNum(5500)}}
    \cup
    {[authenticated |-> FALSE, point |-> p, limit |-> RAbsent,
      max_distance |-> RAbsent] : p \in {SAbsent, SEmpty, CBad}}

NoResult == [kind |-> "none"]

NearbyIdle == [table |-> <<>>, q |-> NoReq, res |-> NoResult]

NearbyInit ==
    \E t \in NearTables, q \in NearbyRequests :
        nearby = [table |-> t, q |-> q, res |-> NoResult]

\* One call of radars_nearby_view on the drawn table and request.
NearbyServe ==
    /\ nearby.res = NoResult
    /\ nearby' = [nearby EXCEPT !.res =
                     RadarsNearbyView(NearRows(nearby.table), hasGis,
                                      nearby.q, MILLI)]
    /\ UNCHANGED <<mapVars, gj, deltaVars, settings, grid, moreVars>>

GridIdle == [start |-> Coord(0, 0), end |-> Coord(0, 0), block_m |-> BLOCK_SIZE_M,
             waypoints |-> <<>>]

GridInit ==
    \E lat \in -MaxGridSpan..MaxGridSpan, lon \in -MaxGridSpan..MaxGridSpan,
       b \in {BLOCK_SIZE_M, BLOCK_SIZE_M \div 2} :
        grid = [start |-> Coord(0, 0), end |-> Coord(lat, lon), block_m |-> b,
                waypoints |-> <<>>]

\* One call of GridRouter.generate_route on the drawn endpoints.
GridServe ==
    /\ grid.waypoints = <<>>
    /\ grid' = [grid EXCEPT !.waypoints =
                   GridRoute(grid.start, grid.end, grid.block_m, MILLI)]
    /\ UNCHANGED <<mapVars, gj, deltaVars, settings, nearby, moreVars>>

(***************************************************************************)
(* A delta-sync client that always passes the version it last received.    *)
(***************************************************************************)
NoSync == [kind |-> "none"]

\* The zones radars_updates_view holds in scope for q on a table: what it
\* returns when no version filters.
ZoneOf(table, gis, q) ==
    RadarsUpdatesView(table, gis, [q EXCEPT !.version = VText("0")]).ids

\* The records of the zones in scope, as the serializer shows them.
InScopeRecords(table, gis, q) ==
    [i \in ZoneIds |-> IF i \in ZoneOf(table, gis, q) THEN table[i] ELSE NoRow]

\* GET of radars_updates_view with the version of the last sync (none on
\* the first).
SyncCall ==
    /\ ures = NoUres
    /\ LET q == [authenticated |-> client.authenticated, lat |-> client.lat,
                 lon |-> client.lon, radius |-> client.radius,
                 version |-> IF sync.kind = "none" THEN [k |-> "absent"]
                             ELSE sync.version]
           a == RadarsUpdatesView(radars, hasGis, q)
       IN  ures' = [kind |-> "updates", req |-> a.req, status |-> a.status,
                    version |-> a.version, ids |-> a.ids, count |-> a.count,
                    repeat |-> FALSE]
    /\ UNCHANGED <<mapVars, gj, auxVars, radars, clock, hasGis, client, prev>>

\* The client keeps the version of the answer; known is what was in scope
\* when the answer was made.
TakeSync ==
    /\ ures.kind = "updates"
    /\ ures.status = 200
    /\ sync' = [kind |-> "synced", version |-> ures.version,
                known |-> InScopeRecords(radars, hasGis, ures.req)]
    /\ ures' = NoUres
    /\ UNCHANGED <<mapVars, gj, settings, nearby, grid, measured, proj, detect,
                   radars, clock, hasGis, client, prev>>

(***************************************************************************)
(* RouteGenerator.calculate_route_metrics (routing_service.py) on drawn    *)
(* sequences of points of the equator, in thousandths of a degree.         *)
(***************************************************************************)
URBAN_THRESHOLD == 5000        \* config.DISTANCE_THRESHOLDS['urban_threshold']
HIGHWAY_THRESHOLD == 20000     \* config.DISTANCE_THRESHOLDS['highway_threshold']
MANY_WAYPOINTS == 10           \* len(waypoints) > 10
TURN_PENALTY == 5              \* config.SPEED_FACTORS['turn_penalty']
MaxMetricPoints == 11          \* longest sequence measured

\* config.SPEEDS[route_type] * traffic_multiplier (0.7), in tenths of km/h.
SpeedTenths(route_type) ==
    IF route_type = "urban" THEN 245
    ELSE IF route_type = "suburban" THEN 350
    ELSE IF route_type = "highway" THEN 560
    ELSE 420

\* GeographyUtils.haversine_distance, in whole metres.
HaversineDistance(coord1, coord2, scale) ==
    NearbyHaversine(coord1.lon, coord1.lat, coord2.lon, coord2.lat, scale)

\* for i in range(len(waypoints) - 1): total_distance += haversine_distance
RECURSIVE TotalDistance(_, _)
TotalDistance(waypoints, scale) ==
    IF Len(waypoints) < 2 THEN 0
    ELSE HaversineDistance(waypoints[1], waypoints[2], scale)
         + TotalDistance(Tail(waypoints), scale)

\* The test with the number of waypoints asked before the highway
\* threshold.
DetermineRouteTypeCountFirst(distance_m, waypoints) ==
    IF distance_m < URBAN_THRESHOLD THEN "urban"
    ELSE IF Len(waypoints) > MANY_WAYPOINTS THEN "suburban"
    ELSE IF distance_m > HIGHWAY_THRESHOLD THEN "highway"
    ELSE "rural"

\* RouteGenerator._determine_route_type
DetermineRouteType(distance_m, waypoints) ==
    IF distance_m < URBAN_THRESHOLD THEN "urban"
    ELSE IF distance_m > HIGHWAY_THRESHOLD THEN "highway"
    ELSE IF Len(waypoints) > MANY_WAYPOINTS THEN "suburban"
    ELSE "rural"

\* RouteGenerator._empty_metrics
EmptyMetrics(algorithm) ==
    [distance_m |-> 0, duration_s |-> 0, algorithm |-> algorithm,
     waypoint_count |-> 0, estimated_speed_tenths |-> 0,
     route_type |-> "unknown"]

\* The record calculate_route_metrics returns for a summed distance and
\* its route type; duration_s in whole seconds.
MetricsRecord(total_distance, route_type, waypoints, algorithm) ==
    [distance_m |-> total_distance,
     duration_s |-> (total_distance * 36) \div SpeedTenths(route_type)
                    + (Len(waypoints) - 2) * TURN_PENALTY,
     algorithm |-> algorithm,
     waypoint_count |-> Len(waypoints),
     estimated_speed_tenths |-> SpeedTenths(route_type),
     route_type |-> route_type]

MetricsOfDistance(total_distance, waypoints, algorithm) ==
    MetricsRecord(total_distance, DetermineRouteType(total_distance, waypoints),
                  waypoints, algorithm)

\* calculate_route_metrics with every field.
CalculateRouteMetricsAt(waypoints, algorithm, scale) ==
    IF Len(waypoints) < 2 THEN EmptyMetrics(algorithm)
    ELSE MetricsOfDistance(TotalDistance(waypoints, scale), waypoints, algorithm)

\* Sequences that stay on or hop between two points 30 thousandths of a
\* degree (3.3 km) apart.
MetricPoints == {Coord(0, 0), Coord(0, 30)}

MetricsIdle == [waypoints |-> <<>>, res |-> NoResult]

MetricsInit ==
    \E w \in SeqsOf(MetricPoints, 0, MaxMetricPoints) :
        measured = [waypoints |-> w, res |-> NoResult]

\* One call of calculate_route_metrics on the drawn sequence.
Measure ==
    /\ measured.res = NoResult
    /\ measured' = [measured EXCEPT !.res =
                       CalculateRouteMetricsAt(measured.waypoints, "direct", MILLI)]
    /\ UNCHANGED <<mapVars, gj, deltaVars, settings, nearby, grid, sync, proj,
                   detect>>

(***************************************************************************)
(* CurvedRouter.generate_route (routing_service.py) on drawn endpoints, in *)
(* thousandths of a degree.  The routes run along a meridian or along the  *)
(* equator, within a few kilometres of the equator, where the destination  *)
(* point is the planar offset.  A bearing is the unit vector (north, east) *)
(* in thousandths.                                                         *)
(***************************************************************************)
SEGMENT_LENGTH_M == 2000       \* config.CURVED_ROUTING['segment_length_km'] * 1000
MAX_SEGMENTS == 20             \* min(num_segments, 20)
MaxCurveSpan == 80             \* longest drawn route, thousandths of a degree

Bearing(north, east) == [north |-> north, east |-> east]

\* Coordinate.__post_init__ on scaled values: TRUE when it does not raise.
CoordinateOkAt(lat, lon, scale) ==
    /\ -90 * scale <= lat /\ lat <= 90 * scale
    /\ -180 * scale <= lon /\ lon <= 180 * scale

\* GeographyUtils.bearing for the drawn routes: due north, south, east or
\* west.
BearingOf(start, end) ==
    IF end.lat > start.lat THEN Bearing(1000, 0)
    ELSE IF end.lat < start.lat THEN Bearing(-1000, 0)
    ELSE IF end.lon > start.lon THEN Bearing(0, 1000)
    ELSE Bearing(0, -1000)

\* sin and cos of the bearing variation 0.2 * random.uniform(-30, 30), in
\* thousandths, for the draws -6, 0 and 6 degrees.
VariationsTried == {-6, 0, 6}
SinVar(v) == IF v = 0 THEN 0 ELSE IF v > 0 THEN 105 ELSE -105
CosVar(v) == IF v = 0 THEN 1000 ELSE 995

\* base_bearing + 90 + bearing_variation
CurveBearing(b, v) ==
    Bearing((-b.north * SinVar(v) - b.east * CosVar(v)) \div 1000,
            (b.north * CosVar(v) - b.east * SinVar(v)) \div 1000)

\* cos(progress * 2 * pi) for progress = i / n, in thousandths; the drawn
\* routes have n of 2, 3 or 4 segments.
CosTurn(i, n) ==
    IF n = 2 THEN -1000
    ELSE IF n = 3 THEN -500
    ELSE IF i = 2 THEN -1000 ELSE 0

\* GeographyUtils.interpolate_coordinates at fraction i / n.
InterpolateCoordinates(coord1, coord2, i, n) ==
    Coord(coord1.lat + ((coord2.lat - coord1.lat) * i) \div n,
          coord1.lon + ((coord2.lon - coord1.lon) * i) \div n)

\* Thousandths of a degree in a signed length of m metres.
DegreesOf(m, scale) ==
    IF m >= 0 THEN (m * scale) \div EARTH_R_PER_DEGREE
    ELSE -((-m * scale) \div EARTH_R_PER_DEGREE)

\* The point destination_point computes, with lon2 wrapped into
\* [-180, 180].
DestinationPointWrapped(coord, distance_m, b, scale) ==
    LET lat2 == coord.lat + DegreesOf((distance_m * b.north) \div 1000, scale)
        lon2 == coord.lon + DegreesOf((distance_m * b.east) \div 1000, scale)
        w == IF lon2 > 180 * scale THEN lon2 - 360 * scale
             ELSE IF lon2 < -180 * scale THEN lon2 + 360 * scale
             ELSE lon2
    IN  [raised |-> "none", point |-> Coord(lat2, w)]

\* GeographyUtils.destination_point: lon2 = lon1 + atan2(...) is not
\* normalised, and Coordinate(lat2, lon2) raises out of range.
DestinationPoint(coord, distance_m, b, scale) ==
    LET lat2 == coord.lat + DegreesOf((distance_m * b.north) \div 1000, scale)
        lon2 == coord.lon + DegreesOf((distance_m * b.east) \div 1000, scale)
    IN  IF CoordinateOkAt(lat2, lon2, scale)
        THEN [raised |-> "none", point |-> Coord(lat2, lon2)]
        ELSE [raised |-> "ValueError", point |-> Coord(lat2, lon2)]

\* The body of the loop for i: the curved point, or the exception.
CurvedPoint(start, end, distance, n, i, v, scale) ==
    DestinationPoint(InterpolateCoordinates(start, end, i, n),
                     (distance * Abs(CosTurn(i, n))) \div 20000,
                     CurveBearing(BearingOf(start, end), v), scale)

\* for i in range(1, num_segments): the points appended, stopping at the
\* first exception.
RECURSIVE CurvedLoop(_, _, _, _, _, _, _)
CurvedLoop(start, end, distance, n, i, draws, scale) ==
    IF i >= n THEN Returned(<<>>)
    ELSE LET p == CurvedPoint(start, end, distance, n, i, draws[i], scale)
             rest == CurvedLoop(start, end, distance, n, i + 1, draws, scale)
         IN  IF p.raised # "none" THEN Raised(p.raised)
             ELSE IF rest.raised # "none" THEN rest
             ELSE Returned(<<p.point>> \o rest.waypoints)

\* The route once the loop gave its points.
CurvedClosed(start, end, loop) ==
    IF loop.raised # "none" THEN loop
    ELSE Returned(<<start>> \o loop.waypoints \o <<end>>)

\* CurvedRouter.generate_route once the distance is known.
CurvedOfDistance(start, end, distance, draws, scale) ==
    IF distance < SEGMENT_LENGTH_M THEN Returned(<<start, end>>)
    ELSE IF Min2(distance \div SEGMENT_LENGTH_M, MAX_SEGMENTS) <= 1
    THEN Returned(<<start, end>>)
    ELSE CurvedClosed(start, end,
             CurvedLoop(start, end, distance,
                        Min2(distance \div SEGMENT_LENGTH_M, MAX_SEGMENTS),
                        1, draws, scale))

\* CurvedRouter.generate_route; draws are the values of random.uniform.
CurvedGenerateRoute(start, end, draws, scale) ==
    CurvedOfDistance(start, end, HaversineDistance(start, end, scale), draws,
                     scale)

\* Valid endpoints at the Greenwich meridian, next to the 180th and on it.
CurveSpans == {10, 40, 60, MaxCurveSpan}
CurveLons == {0, 179 * MILLI + MILLI - 1, 180 * MILLI}
CurveRoutes ==
    {[start |-> Coord(0, l), end |-> Coord(s, l)] : l \in CurveLons, s \in CurveSpans}
    \cup {[start |-> Coord(s, l), end |-> Coord(0, l)] : l \in CurveLons, s \in CurveSpans}
    \cup {[start |-> Coord(0, 180 * MILLI - s), end |-> Coord(0, 180 * MILLI)] :
             s \in CurveSpans}
    \cup {[start |-> Coord(0, s), end |-> Coord(0, 0)] : s \in CurveSpans}

NoRoute == [raised |-> "none", waypoints |-> <<>>]

ProjIdle == [start |-> Coord(0, 0), end |-> Coord(0, 0), draws |-> <<>>,
             res |-> NoRoute]

ProjInit ==
    \E r \in CurveRoutes, d \in [1..3 -> VariationsTried] :
        proj = [start |-> r.start, end |-> r.end, draws |-> d, res |-> NoRoute]

\* One call of CurvedRouter.generate_route on the drawn endpoints.
ProjServe ==
    /\ proj.res = NoRoute
    /\ proj' = [proj EXCEPT !.res =
                   CurvedGenerateRoute(proj.start, proj.end, proj.draws, MILLI)]
    /\ UNCHANGED <<mapVars, gj, deltaVars, settings, nearby, grid, sync,
                   measured, detect>>

(***************************************************************************)
(* RadarViewSet.detect (api/views.py) and Radar.increment_alert_count      *)
(* (radars/models.py): concurrent POSTs on one radar, each served by its   *)
(* own worker with its own copy of the row.                                *)
(***************************************************************************)
MaxDetects == 3                \* detect requests on the radar

DetectIds == 1..MaxDetects

\* A request not yet served; one whose worker holds the row it read.
DetectWaiting == [pc |-> "waiting", device_id |-> FALSE, alert_count |-> 0]
DetectHolding(pc, device_id, alert_count) ==
    [pc |-> pc, device_id |-> device_id, alert_count |-> alert_count]

DetectIdle == [alert_count |-> 0, logs |-> 0, reqs |-> <<>>]

DetectInit ==
    detect = [alert_count |-> 0, logs |-> 0,
              reqs |-> [i \in DetectIds |-> DetectWaiting]]

\* radar = self.get_object(): the worker reads the row; the body carries a
\* device_id or not.
DetectGetObject(i) ==
    /\ detect.reqs[i].pc = "waiting"
    /\ \E d \in BOOLEAN :
         detect' = [detect EXCEPT !.reqs[i] =
                       DetectHolding("got", d, detect.alert_count)]
    /\ UNCHANGED <<mapVars, gj, deltaVars, settings, nearby, grid, sync,
                   measured, proj>>

\* 400 without a device_id, else DetectionLog.objects.create(...).
DetectLog(i) ==
    /\ detect.reqs[i].pc = "got"
    /\ detect' = IF detect.reqs[i].device_id
                 THEN [detect EXCEPT !.logs = @ + 1, !.reqs[i].pc = "logged"]
                 ELSE [detect EXCEPT !.reqs[i].pc = "rejected"]
    /\ UNCHANGED <<mapVars, gj, deltaVars, settings, nearby, grid, sync,
                   measured, proj>>

\* The increment done in the database on the stored value.
DetectIncrementStored(i) ==
    /\ detect.reqs[i].pc = "logged"
    /\ detect' = [detect EXCEPT !.alert_count = @ + 1,
                                !.reqs[i].pc = "recorded"]
    /\ UNCHANGED <<mapVars, gj, deltaVars, settings, nearby, grid, sync,
                   measured, proj>>

\* radar.increment_alert_count(): self.alert_count += 1 on the copy read by
\* get_object, then save(update_fields=['alert_count', 'last_detected']);
\* the request is answered 'detection recorded'.
DetectIncrement(i) ==
    /\ detect.reqs[i].pc = "logged"
    /\ detect' = [detect EXCEPT !.alert_count = detect.reqs[i].alert_count + 1,
                                !.reqs[i].pc = "recorded"]
    /\ UNCHANGED <<mapVars, gj, deltaVars, settings, nearby, grid, sync,
                   measured, proj>>

(***************************************************************************)
(* Specifications.                                                         *)
(***************************************************************************)
MapInit ==
    /\ algorithms = {}
    /\ svc = SvcNew
    /\ req = NoReq
    /\ resp = NoResp

\* A constructed service with the synthetic generators only.
MapIdle ==
    /\ algorithms = BuiltIn
    /\ svc = [state |-> "ready", pgCompleted |-> FALSE, osmCompleted |-> FALSE,
              pgAttempts |-> 1, osmAttempts |-> 1]
    /\ req = NoReq
    /\ resp = NoResp

DeltaInit ==
    /\ radars = [i \in ZoneIds |-> NoRow]
    /\ clock = 0
    /\ hasGis \in BOOLEAN
    /\ client \in Clients
    /\ prev = NoPrev
    /\ ures = NoUres

DeltaIdle ==
    /\ radars = [i \in ZoneIds |-> NoRow]
    /\ clock = 0
    /\ hasGis = FALSE
    /\ client = [authenticated |-> FALSE, lat |-> RAbsent, lon |-> RAbsent,
                 radius |-> RAbsent]
    /\ prev = NoPrev
    /\ ures = NoUres

\* Nothing synced, measured, projected or detected.
MoreIdle ==
    /\ sync = NoSync
    /\ measured = MetricsIdle
    /\ proj = ProjIdle
    /\ detect = DetectIdle

AuxIdle ==
    /\ settings = SettingsOff
    /\ nearby = NearbyIdle
    /\ grid = GridIdle
    /\ MoreIdle

\* The routing service, GET /route and GET /algorithms.
Init == MapInit /\ GjIdle /\ DeltaIdle /\ AuxIdle

Next ==
    \/ Construct
    \/ Arrive
    \/ HandleRoute
    \/ HandleCall
    \/ HandleAlgorithms
    \/ HandleHealth
    \/ Deliver

Spec == Init /\ [][Next]_vars

\* _create_geojson_feature on drawn inputs.
GjNext == Assemble

GjSpecInit == MapIdle /\ GjInit /\ DeltaIdle /\ AuxIdle

SpecGeoJson == GjSpecInit /\ [][GjNext]_vars

\* The Radar table and radars_updates_view.
DeltaNext ==
    \/ Tick
    \/ \E i \in ZoneIds : CreateRadar(i)
    \/ \E i \in ZoneIds, a \in BOOLEAN, v \in BOOLEAN : SaveRadar(i, a, v)
    \/ \E i \in ZoneIds : DeleteRadar(i)
    \/ \E i \in ZoneIds : MarkVerified(i)
    \/ \E i \in ZoneIds, f \in BOOLEAN : MarkActive(i, f)
    \/ UpdatesCall
    \/ TakeUpdates
    \/ NearbyCall
    \/ \E q \in ImpactedScopes(client.authenticated) : ImpactedCall(q)
    \/ TakeAnswer

DeltaSpecInit == MapIdle /\ GjIdle /\ DeltaInit /\ AuxIdle

SpecDelta == DeltaSpecInit /\ [][DeltaNext]_vars

\* route_view and radars_impacted_view under every setting of the routing
\* keys.
DjangoNext ==
    \/ RouteCall
    \/ \E q \in ImpactedRequests(client.authenticated) : ImpactedCall(q)
    \/ TakeAnswer

DjangoSpecInit ==
    /\ MapIdle /\ GjIdle /\ DeltaIdle
    /\ settings \in SettingsTried
    /\ nearby = NearbyIdle
    /\ grid = GridIdle
    /\ MoreIdle

SpecDjango == DjangoSpecInit /\ [][DjangoNext]_vars

\* A detection area over the road between PointA and PointB, whichever pin
\* it belongs to (save() leaves center_lat / center_lon as the form set
\* them).
RoadSector == Geom("Polygon", <<RectRing(177, -1, 179, 1)>>)

\* radars_impacted_view on tables whose stored sectors vary.
SectorsTried(i) ==
    {NoSector, RoadSector, TextSector, Geom("Point", <<>>), Geom("Polygon", <<>>),
     Geom("Polygon", <<<<>>>>),
     Geom("Polygon", <<<<<<Site(i), 0>>, <<Site(i) + 1, 0>>>>>>),
     Geom("Polygon", <<<<<<Site(i), 0, 0>>, <<Site(i) + 1, 0, 0>>,
                        <<Site(i) + 1, 1, 0>>, <<Site(i), 0, 0>>>>>>),
     Geom("Polygon", <<BowTieRing(Site(i) - 1, -1, Site(i) + 1, 1)>>),
     Geom("Polygon", <<RectRing(Site(i) - 1, 5, Site(i) + 1, 6)>>),
     SiteSector(i)}

SectorTables ==
    {t \in [ZoneIds -> {NoRow} \cup UNION {{[Row(i, TRUE, v, 0) EXCEPT !.sector_json = s] :
                                               v \in BOOLEAN, s \in SectorsTried(i)} :
                                            i \in ZoneIds}] :
        \A i \in ZoneIds : t[i].exists => t[i].id = i}

ImpactedNext ==
    \/ \E q \in ImpactedScopes(client.authenticated) : ImpactedCall(q)
    \/ TakeAnswer

ImpactedSpecInit ==
    /\ MapIdle /\ GjIdle
    /\ radars \in SectorTables
    /\ clock = 0
    /\ hasGis \in BOOLEAN
    /\ client \in {c \in Clients : c.lat = RAbsent /\ c.lon = RAbsent /\ c.radius = RAbsent}
    /\ prev = NoPrev
    /\ ures = NoUres
    /\ settings \in {SettingsOff, [SettingsOff EXCEPT !.shapely = FALSE]}
    /\ nearby = NearbyIdle
    /\ grid = GridIdle
    /\ MoreIdle

SpecImpacted == ImpactedSpecInit /\ [][ImpactedNext]_vars

\* radars_nearby_view on drawn tables and requests.
NearbyNext == NearbyServe

NearbySpecInit ==
    /\ MapIdle /\ GjIdle
    /\ radars = [i \in ZoneIds |-> NoRow]
    /\ clock = 0
    /\ hasGis \in BOOLEAN
    /\ client = [authenticated |-> FALSE, lat |-> RAbsent, lon |-> RAbsent,
                 radius |-> RAbsent]
    /\ prev = NoPrev
    /\ ures = NoUres
    /\ settings = SettingsOff
    /\ NearbyInit
    /\ grid = GridIdle
    /\ MoreIdle

SpecNearby == NearbySpecInit /\ [][NearbyNext]_vars

\* GridRouter.generate_route on drawn endpoints.
GridNext == GridServe

GridSpecInit ==
    /\ MapIdle /\ GjIdle /\ DeltaIdle
    /\ settings = SettingsOff
    /\ nearby = NearbyIdle
    /\ GridInit
    /\ MoreIdle

SpecGrid == GridSpecInit /\ [][GridNext]_vars

\* The table operations between the syncs of one client.
SyncClients == {c \in Clients : c.lat # RText}

SyncNext ==
    \/ Tick
    \/ \E i \in ZoneIds : CreateRadar(i)
    \/ \E i \in ZoneIds, a \in BOOLEAN, v \in BOOLEAN : SaveRadar(i, a, v)
    \/ \E i \in ZoneIds : DeleteRadar(i)
    \/ \E i \in ZoneIds : MarkVerified(i)
    \/ \E i \in ZoneIds, f \in BOOLEAN : MarkActive(i, f)
    \/ SyncCall
    \/ TakeSync

SyncSpecInit ==
    /\ MapIdle /\ GjIdle
    /\ radars = [i \in ZoneIds |-> NoRow]
    /\ clock = 0
    /\ hasGis \in BOOLEAN
    /\ client \in SyncClients
    /\ prev = NoPrev
    /\ ures = NoUres
    /\ AuxIdle

SpecSync == SyncSpecInit /\ [][SyncNext]_vars

\* calculate_route_metrics on drawn sequences.
MetricsNext == Measure

MetricsSpecInit ==
    /\ MapIdle /\ GjIdle /\ DeltaIdle
    /\ settings = SettingsOff
    /\ nearby = NearbyIdle
    /\ grid = GridIdle
    /\ sync = NoSync
    /\ MetricsInit
    /\ proj = ProjIdle
    /\ detect = DetectIdle

SpecMetrics == MetricsSpecInit /\ [][MetricsNext]_vars

\* CurvedRouter.generate_route on drawn endpoints.
ProjNext == ProjServe

ProjSpecInit ==
    /\ MapIdle /\ GjIdle /\ DeltaIdle
    /\ settings = SettingsOff
    /\ nearby = NearbyIdle
    /\ grid = GridIdle
    /\ sync = NoSync
    /\ measured = MetricsIdle
    /\ ProjInit
    /\ detect = DetectIdle

SpecProjection == ProjSpecInit /\ [][ProjNext]_vars

\* Concurrent detect requests on one radar.
DetectNext ==
    \/ \E i \in DetectIds : DetectGetObject(i)
    \/ \E i \in DetectIds : DetectLog(i)
    \/ \E i \in DetectIds : DetectIncrement(i)

DetectSpecInit ==
    /\ MapIdle /\ GjIdle /\ DeltaIdle
    /\ settings = SettingsOff
    /\ nearby = NearbyIdle
    /\ grid = GridIdle
    /\ sync = NoSync
    /\ measured = MetricsIdle
    /\ proj = ProjIdle
    /\ DetectInit

SpecDetect == DetectSpecInit /\ [][DetectNext]_vars

\* Route, updates, nearby and impacted requests in flight together on a
\* registry and a table nothing else touches.
RequestRegistries == {BuiltIn, BuiltIn \cup {"pg", "osm"}}

RequestTables ==
    {[i \in ZoneIds |-> Row(i, TRUE, TRUE, 0)],
     [i \in ZoneIds |-> IF i = 1 THEN NoRow ELSE Row(i, TRUE, FALSE, 1)]}

\* A direct call of get_route reaches the service.
ArriveCall ==
    /\ req = NoReq
    /\ resp = NoResp
    /\ req' \in CallRequests
    /\ UNCHANGED <<algorithms, svc, resp, gj, auxVars, deltaVars>>

RequestsNext ==
    \/ ArriveCall
    \/ HandleCall
    \/ Deliver
    \/ UpdatesCall
    \/ TakeUpdates
    \/ NearbyCall
    \/ \E q \in ImpactedScopes(client.authenticated) : ImpactedCall(q)
    \/ TakeAnswer

RequestsSpecInit ==
    /\ algorithms \in RequestRegistries
    /\ svc = [state |-> "ready", pgCompleted |-> ("pg" \in algorithms),
              osmCompleted |-> ("osm" \in algorithms),
              pgAttempts |-> 1, osmAttempts |-> 1]
    /\ req = NoReq
    /\ resp = NoResp
    /\ GjIdle
    /\ radars \in RequestTables
    /\ clock = 1
    /\ hasGis = FALSE
    /\ client = [authenticated |-> TRUE, lat |-> RAbsent, lon |-> RAbsent,
                 radius |-> RAbsent]
    /\ prev = NoPrev
    /\ ures = NoUres
    /\ settings \in {SettingsOff, [SettingsOff EXCEPT !.custom_url = TRUE]}
    /\ nearby = NearbyIdle
    /\ grid = GridIdle
    /\ MoreIdle

SpecRequests == RequestsSpecInit /\ [][RequestsNext]_vars

(***************************************************************************)
(* Properties.                                                             *)
(***************************************************************************)
\* The start and end a route request asks for, read off the request alone.
Requested(r) ==
    IF r.kind = "call"
    THEN [k |-> "ok", start |-> [lat |-> r.start_lat, lon |-> r.start_lon],
          end |-> [lat |-> r.end_lat, lon |-> r.end_lon]]
    ELSE IF /\ r.start_lat.k = "num" /\ r.start_lon.k = "num"
            /\ r.end_lat.k = "num" /\ r.end_lon.k = "num"
    THEN [k |-> "ok", start |-> [lat |-> r.start_lat.v, lon |-> r.start_lon.v],
          end |-> [lat |-> r.end_lat.v, lon |-> r.end_lon.v]]
    ELSE IF /\ r.from.k = "str" /\ r.to.k = "str"
            /\ Len(r.from.parts) = 2 /\ Len(r.to.parts) = 2
            /\ \A i \in 1..2 : r.from.parts[i].k = "num" /\ r.to.parts[i].k = "num"
    THEN [k |-> "ok", start |-> [lat |-> r.from.parts[1].v, lon |-> r.from.parts[2].v],
          end |-> [lat |-> r.to.parts[1].v, lon |-> r.to.parts[2].v]]
    ELSE [k |-> "none"]

InRange(c) == c.lat >= -90 /\ c.lat <= 90 /\ c.lon >= -180 /\ c.lon <= 180

ValidEndpoints(r) ==
    /\ Requested(r).k = "ok"
    /\ InRange(Requested(r).start)
    /\ InRange(Requested(r).end)

LonLat(c) == <<c.lon, c.lat>>

\* A route request has been answered.
Answered == resp.kind \in {"http", "call"}

\* C1: whenever the provider of a request raised, the request is still
\* answered with a Feature whose geometry is the two-point line
\* [start, end]; nothing is raised to the caller and no error status is
\* answered.
C1_ProviderFailureGivesDirectLine ==
    (Answered /\ resp.providerRaised # "none") =>
        /\ resp.raised = "none"
        /\ resp.status = 200
        /\ resp.feature # NoFeature
        /\ resp.feature.geometry.coordinates =
               <<LonLat(Requested(resp.req).start), LonLat(Requested(resp.req).end)>>

\* C2: the first point of every returned route is the requested start and
\* the last point is the requested end.
C2_EndpointsPreserved ==
    (Answered /\ resp.status = 200) =>
        /\ Len(resp.waypoints) >= 1
        /\ resp.waypoints[1] = Requested(resp.req).start
        /\ resp.waypoints[Len(resp.waypoints)] = Requested(resp.req).end

\* C3: every route a provider returns has at least two points.
C3_AtLeastTwoPoints ==
    (Answered /\ resp.status = 200) => Len(resp.waypoints) >= 2

\* The provider the selection order names for a request.
SelectedByOrder(r) ==
    IF r.algorithm # None THEN r.algorithm
    ELSE IF DEFAULT_BACKEND \in algorithms THEN DEFAULT_BACKEND
    ELSE FALLBACK_ALGORITHM

\* C4: for GET /route and for direct calls alike, a request with valid
\* endpoints whose selected name (explicit, else the default backend when
\* registered, else the fallback algorithm) is registered is served by
\* exactly that provider.
C4_SelectionOrder ==
    (Answered /\ ValidEndpoints(resp.req) /\ SelectedByOrder(resp.req) \in algorithms) =>
        resp.invoked = <<SelectedByOrder(resp.req)>>

InvalidRouteRequest(r) ==
    \/ ~ValidEndpoints(r)
    \/ (r.algorithm # None /\ r.algorithm \notin algorithms)

\* C5: GET /route answers 400, with no route and no provider invoked, for
\* every request with missing, malformed or out-of-range coordinates or
\* with an algorithm name that is not registered.
C5_InvalidInputIs400 ==
    (resp.kind = "http" /\ InvalidRouteRequest(resp.req)) =>
        /\ resp.status = 400
        /\ resp.invoked = <<>>
        /\ resp.feature = NoFeature

C5_Witness ==
    /\ resp.kind = "http"
    /\ Requested(resp.req).k = "ok"
    /\ ~InRange(Requested(resp.req).start)
    /\ resp.req.algorithm = "direct"
    /\ resp.status = 400

\* C6: construction of the service never raises; afterwards the registry
\* holds the four synthetic generators, and holds osm / pg only if that
\* registration completed without error; each registration ran once.
C6_ConstructionNeverFails ==
    (svc.state # "new") =>
        /\ svc.state = "ready"
        /\ BuiltIn \subseteq algorithms
        /\ algorithms \subseteq BuiltIn \cup {"osm", "pg"}
        /\ ("osm" \in algorithms => svc.osmCompleted)
        /\ ("pg" \in algorithms => svc.pgCompleted)
        /\ svc.pgAttempts = 1
        /\ svc.osmAttempts = 1

C6_Witness ==
    /\ svc.state = "ready"
    /\ svc.pgCompleted /\ "pg" \in algorithms
    /\ ~svc.osmCompleted /\ "osm" \notin algorithms

Assembled == gj.feature # NoFeature

\* C7: the assembled coordinates list never has more than max_coords
\* entries.
C7_AtMostMaxCoordinates ==
    Assembled => Len(gj.feature.geometry.coordinates) <= gj.max_coords

RECURSIVE IsSubsequence(_, _)
IsSubsequence(a, b) ==
    IF a = <<>> THEN TRUE
    ELSE IF b = <<>> THEN FALSE
    ELSE IF Head(a) = Head(b) THEN IsSubsequence(Tail(a), Tail(b))
    ELSE IsSubsequence(a, Tail(b))

\* C8: the assembled coordinates start at the first waypoint, end at the
\* last waypoint and are a subsequence, in order, of the waypoints as
\* [lon, lat] pairs.
C8_SubsequenceWithEndpoints ==
    Assembled =>
        LET out == gj.feature.geometry.coordinates
            all == [i \in 1..Len(gj.waypoints) |-> LonLat(gj.waypoints[i])]
        IN  /\ out[1] = all[1]
            /\ out[Len(out)] = all[Len(all)]
            /\ IsSubsequence(out, all)

\* C9: a call made with the version the previous call returned, by the same
\* client on an unchanged table, returns no record and the same version.
C9_RepeatReturnsNothing ==
    (ures.kind = "updates" /\ ures.repeat) =>
        /\ ures.status = 200
        /\ ures.count = 0
        /\ ures.ids = {}
        /\ ures.version = ures.req.version

C9_Witness ==
    /\ ures.kind = "updates"
    /\ ures.repeat
    /\ ures.req.version.k = "iso"
    /\ \E i \in ZoneIds : radars[i].exists /\ radars[i].active /\ radars[i].verified

\* The zones in the client's scope: active, verified for an anonymous
\* caller, and within the radius of the point when a point is given.
InScopeIds ==
    {i \in ZoneIds :
        /\ radars[i].exists
        /\ radars[i].active
        /\ (client.authenticated \/ radars[i].verified)
        /\ \/ client.lat.k = "absent"
           \/ client.lon.k = "absent"
           \/ HaversineEquator(client.lon.v, radars[i].center_lon)
                  <= RadiusKm(client.radius) * 1000}

IsResyncToken(v) == v.k = "absent" \/ v = VText("0") \/ v = VText("")

\* C10: a call with the full-resync token returns exactly the zones in
\* scope.
C10_ResyncReturnsScope ==
    (ures.kind = "updates" /\ ures.status = 200 /\ IsResyncToken(ures.req.version)) =>
        ures.ids = InScopeIds

(***************************************************************************)
(* Properties of the Django API.                                           *)
(***************************************************************************)
\* C11: every zone returned by the updates, nearby and impacted endpoints
\* is active, and verified when the caller is not authenticated, whatever
\* creates, edits, verifications, activations and deactivations came
\* before.
C11_OnlyVisibleZonesReturned ==
    (ures.kind \in {"updates", "nearby", "impacted"} /\ ures.status = 200) =>
        \A i \in ures.ids :
            /\ radars[i].exists
            /\ radars[i].active
            /\ (ures.req.authenticated \/ radars[i].verified)

\* An anonymous nearby call that returns a zone while an active zone in
\* reach is not verified.
C11_Witness ==
    /\ ures.kind = "nearby"
    /\ ~ures.req.authenticated
    /\ ures.req.max_distance = RNum(20000000)
    /\ ures.req.point = CPair(0, 0)
    /\ ures.ids # {}
    /\ \E i \in ZoneIds :
          radars[i].exists /\ radars[i].active /\ ~radars[i].verified

\* The parts of the request that stand for coordinates: the non-blank
\* parts of coords when given, else from and to.
IsPart(p) == p.k # "blank"

GivenParts(q) ==
    IF q.coords.k = "list" THEN SelectSeq(q.coords.parts, IsPart)
    ELSE <<q.from, q.to>>

\* The request supplies at least two coordinates, all well formed.
WellFormedRequest(q) ==
    /\ Len(GivenParts(q)) >= 2
    /\ \A i \in 1..Len(GivenParts(q)) : GivenParts(q)[i].k = "pair"

RequestCoordinates(q) ==
    [i \in 1..Len(GivenParts(q)) |-> <<GivenParts(q)[i].lon, GivenParts(q)[i].lat>>]

\* The providers of the chain in the order they are tried, and those the
\* settings configure.
ChainOrder == <<"osrm-remote", "pgRouting", "custom", "osrm">>

IsConfigured(name) ==
    \/ name = "osrm-remote" /\ settings.remote_osrm
    \/ name = "pgRouting" /\ settings.use_pgrouting
    \/ name = "custom" /\ settings.custom_url
    \/ name = "osrm" /\ settings.routing_provider = "osrm" /\ settings.routing_base_url

ConfiguredProviders == SelectSeq(ChainOrder, IsConfigured)

NoRepeats(seq) ==
    \A i \in 1..Len(seq), j \in 1..Len(seq) : seq[i] = seq[j] => i = j

IsPrefix(a, b) == Len(a) <= Len(b) /\ a = SubSeq(b, 1, Len(a))

\* C12: while one route request is served every provider is invoked at
\* most once, in chain order; a failed provider is followed by the next
\* configured one, and when all have failed the chain has been through all
\* of them; at most one registered backend of the map service is called.
C12_EachProviderAtMostOnce ==
    (ures.kind \in {"route", "impacted"} /\ WellFormedRequest(ures.req)) =>
        /\ NoRepeats(ures.invoked)
        /\ IsPrefix(ures.invoked, ConfiguredProviders)
        /\ IsPrefix(ures.failed, ures.invoked)
        /\ Len(ures.failed) >= Len(ures.invoked) - 1
        /\ (ures.failed = ures.invoked => ures.invoked = ConfiguredProviders)
        /\ Len(ures.backends) <= 1

\* Three providers failed in turn, the custom service after calling one of
\* its backends, and the fourth answered.
C12_Witness ==
    /\ ures.kind = "route"
    /\ ures.invoked = ChainOrder
    /\ ures.failed = SubSeq(ChainOrder, 1, 3)
    /\ Len(ures.backends) = 1
    /\ ures.status = 200

\* C14: route_view and radars_impacted_view answer 400 to every request
\* that does not supply at least two well-formed coordinates.
C14_TooFewCoordinatesIs400 ==
    (ures.kind \in {"route", "impacted"} /\ ~WellFormedRequest(ures.req)) =>
        ures.status = 400

\* C15: when every configured provider has failed, route_view answers 200
\* with a Feature whose LineString holds exactly the coordinates of the
\* request, in order.
C15_AllFailedGivesRequestLine ==
    (/\ ures.kind = "route"
     /\ WellFormedRequest(ures.req)
     /\ ures.failed = ures.invoked) =>
        /\ ures.status = 200
        /\ ures.feature.type = "Feature"
        /\ ures.feature.geometry.type = "LineString"
        /\ ures.feature.geometry.coordinates = RequestCoordinates(ures.req)

\* All four providers were tried and failed on a request of three
\* coordinates.
C15_Witness ==
    /\ ures.kind = "route"
    /\ ures.invoked = ChainOrder
    /\ ures.failed = ChainOrder
    /\ Len(RequestCoordinates(ures.req)) = 3
    /\ ures.status = 200

(***************************************************************************)
(* Properties of the map service: backends and GET /algorithms.            *)
(***************************************************************************)
\* C13: generate_route of the pg backend returns [start, end] when the
\* routing schema is missing, no nearest vertex is found or no path exists,
\* and generate_route of the osm backend returns [start, end] when an
\* endpoint has no node within the snap radius or no path exists; neither
\* raises in these cases.
C13_BackendsRevertToDirect ==
    (/\ Answered
     /\ \/ (resp.invoked = <<"pg">>
            /\ resp.met \in {"schema_missing", "no_vertex", "no_path"})
        \/ (resp.invoked = <<"osm">> /\ resp.met \in {"snap_miss", "no_path"})) =>
        /\ resp.providerRaised = "none"
        /\ resp.waypoints = <<Requested(resp.req).start, Requested(resp.req).end>>

\* C16: GET /algorithms lists exactly the names of the registry, and
\* reports the configured default.
C16_ListsExactlyTheRegistry ==
    resp.kind = "algorithms" =>
        /\ {resp.listed[i] : i \in 1..Len(resp.listed)} = algorithms
        /\ resp.default = DEFAULT_BACKEND

(***************************************************************************)
(* Properties of radars_nearby_view.                                       *)
(***************************************************************************)
\* The limit in force: 10 when absent or not an integer, else within 1..100.
ClampedLimit(raw) ==
    IF raw.k # "num" THEN 10
    ELSE IF raw.v < 1 THEN 1
    ELSE IF raw.v > 100 THEN 100
    ELSE raw.v

\* Distance in metres of pin i from the query point of the request.
PinDistance(i) ==
    NearbyHaversine(nearby.q.point.lon, nearby.q.point.lat,
                    NearSite(i).lon, NearSite(i).lat, MILLI)

NearbyServed == nearby.res.kind = "nearby" /\ nearby.res.status = 200

\* C17: the results are in ascending order of distance from the point,
\* each with its distance; there are at most limit of them; none is
\* farther than a positive max_distance.
C17_SortedLimitedWithinDistance ==
    NearbyServed =>
        LET res == nearby.res.results
        IN  /\ \A i \in 1..Len(res) : res[i].distance_m = PinDistance(res[i].id)
            /\ \A i \in 1..Len(res), j \in 1..Len(res) :
                  i < j => PinDistance(res[i].id) <= PinDistance(res[j].id)
            /\ Len(res) <= ClampedLimit(nearby.q.limit)
            /\ (nearby.q.max_distance.k = "num" /\ nearby.q.max_distance.v > 0) =>
                  \A i \in 1..Len(res) :
                      PinDistance(res[i].id) <= nearby.q.max_distance.v

\* Three pins are visible, one beyond max_distance; the two within it
\* exceed the limit of one.
C17_Witness ==
    /\ NearbyServed
    /\ nearby.q.limit = RNum(1)
    /\ nearby.q.max_distance = RNum(5500)
    /\ Len(nearby.res.results) = 1
    /\ \A i \in NearZoneIds :
          nearby.table[i].exists /\ nearby.table[i].active /\ nearby.table[i].verified

\* The pins the caller may see.
VisiblePins ==
    {i \in NearZoneIds :
        /\ nearby.table[i].exists
        /\ nearby.table[i].active
        /\ (nearby.q.authenticated \/ nearby.table[i].verified)}

\* C18: without max_distance no visible pin left out of the results is
\* nearer to the point than a pin that is returned.
C18_TopNNearest ==
    (NearbyServed /\ nearby.q.max_distance = RAbsent) =>
        \A i \in VisiblePins \ nearby.res.ids, j \in nearby.res.ids :
            PinDistance(i) >= PinDistance(j)

(***************************************************************************)
(* Properties of GridRouter.generate_route.                                *)
(***************************************************************************)
GridServed == grid.waypoints # <<>>

GridDistance ==
    PlanarMetres(grid.end.lat - grid.start.lat, grid.end.lon - grid.start.lon,
                 MILLI)

GridTotalBlocks == TotalBlocks(grid.start, grid.end, grid.block_m, MILLI)

\* C19: Grid returns at most 16 points: min(totalBlocks, 15) + 1 of them,
\* more than two, when the distance is at least the minimum and
\* totalBlocks > 2, else exactly [start, end].
C19_GridPointCount ==
    GridServed =>
        /\ Len(grid.waypoints) <= 16
        /\ IF GridDistance >= MIN_ROUTE_DISTANCE /\ GridTotalBlocks > 2
           THEN /\ Len(grid.waypoints) = Min2(GridTotalBlocks, 15) + 1
                /\ Len(grid.waypoints) > 2
           ELSE grid.waypoints = <<Whole(grid.start), Whole(grid.end)>>

\* A route long enough for the cap of 15 steps to apply.
C19_Witness ==
    /\ GridServed
    /\ GridTotalBlocks > 15
    /\ Len(grid.waypoints) = 16

(***************************************************************************)
(* Properties of _compute_impacted_radars.                                 *)
(***************************************************************************)
\* A stored sector that is a valid polygon.
WellFormedSector(sector) ==
    /\ sector.k = "geom"
    /\ sector.type = "Polygon"
    /\ Len(sector.rings) >= 1
    /\ RingIsValid(sector.rings[1])

Malformed(i) == radars[i].exists /\ ~WellFormedSector(radars[i].sector_json)

\* The table with the malformed zones removed.
WithoutMalformed ==
    [i \in ZoneIds |-> IF Malformed(i) THEN NoRow ELSE radars[i]]

AllIdle == [remote |-> IdleEnv, pgr |-> IdleEnv, custom |-> IdleEnv, osrm |-> IdleEnv]

\* C20: zones whose sector is missing, unparsable, not a Polygon, empty or
\* invalid are skipped without an error, and the impacted zones are those
\* found on the same table without the malformed zones.
C20_MalformedZonesSkipped ==
    (ures.kind = "impacted" /\ ~hasGis) =>
        /\ ures.status = 200
        /\ ures.ids = RadarsImpactedView(WithoutMalformed, hasGis, settings,
                                         algorithms, ures.req, AllIdle).ids

\* The newest zone in reach is malformed and the older one is impacted.
C20_Witness ==
    /\ ures.kind = "impacted"
    /\ ures.status = 200
    /\ Malformed(2)
    /\ radars[2].active
    /\ (ures.req.authenticated \/ radars[2].verified)
    /\ ures.req.from = CPair(-179, 0)
    /\ ures.ids = {1}

\* Twice the centre of the bounding box of a ring, and twice the midpoint
\* of a two-point route.
RingCentre2(shell) ==
    LET xs == [i \in 1..Len(shell) |-> shell[i][1]]
        ys == [i \in 1..Len(shell) |-> shell[i][2]]
    IN  <<SeqMin(xs) + SeqMax(xs), SeqMin(ys) + SeqMax(ys)>>

RouteMidpoint2(coords) ==
    <<coords[1][1] + coords[Len(coords)][1], coords[1][2] + coords[Len(coords)][2]>>

\* Metres between a ring and the stretch of a route along one parallel.
RingGap(coords, shell) ==
    LET lons == [i \in 1..Len(coords) |-> coords[i][1]]
        lats == [i \in 1..Len(coords) |-> coords[i][2]]
        xs == [i \in 1..Len(shell) |-> shell[i][1]]
        ys == [i \in 1..Len(shell) |-> shell[i][2]]
    IN  PlanarMetres(
            Max2(0, Max2(SeqMin(xs) - SeqMax(lons), SeqMin(lons) - SeqMax(xs))),
            Max2(0, Max2(SeqMin(ys) - SeqMax(lats), SeqMin(lats) - SeqMax(ys))),
            1)

\* The zones an impacted request may see: active, verified for anonymous
\* callers, with a valid polygon.
VisibleZones(q) ==
    {i \in ZoneIds :
        /\ radars[i].exists
        /\ radars[i].active
        /\ (q.authenticated \/ radars[i].verified)
        /\ WellFormedSector(radars[i].sector_json)}

\* The tolerance a request asks for (5 m when it gives none).
Tolerance(q) == IF q.buffer.k = "num" THEN q.buffer.v ELSE DEFAULT_BUFFER_M

\* C21: on a served impacted request, every visible active zone whose
\* polygon is centred on the midpoint of the route is reported, and every
\* visible active zone whose polygon lies ten times the tolerance or more
\* from the route is not.
C21_CentredReportedFarNot ==
    (ures.kind = "impacted" /\ ures.status = 200 /\ settings.shapely
        /\ ures.req.buffer.k # "text") =>
        \A i \in VisibleZones(ures.req) :
            LET shell == radars[i].sector_json.rings[1]
                coords == ures.feature.geometry.coordinates
            IN  /\ RingCentre2(shell) = RouteMidpoint2(coords) => i \in ures.ids
                /\ (Tolerance(ures.req) > 0
                      /\ RingGap(coords, shell) >= 10 * Tolerance(ures.req))
                       => i \notin ures.ids

\* The zones the exact test reports when every visible active zone is
\* tested: the loop of _compute_impacted_radars over the queryset without
\* its centre filter.
ExactImpacted(q, coords) ==
    SeqToSet(ImpactedLoop(NewestFirst(BaseQs(radars, q.authenticated)),
                          coords, BufferM(q.buffer)))

\* C25: the bounding-box prefilter excludes no zone the exact test would
\* report: the impacted zones of a served request are those found by
\* testing every visible active zone.
C25_PrefilterLosesNothing ==
    (ures.kind = "impacted" /\ ures.status = 200 /\ settings.shapely) =>
        ures.ids = ExactImpacted(ures.req, ures.feature.geometry.coordinates)

(***************************************************************************)
(* Properties of the provider label.                                       *)
(***************************************************************************)
\* The label each provider of the chain writes into
\* properties.summary.provider.
ProviderLabel(name) == IF name = "custom" THEN "radar2-custom" ELSE name

RealProviderLabels == {ProviderLabel(ChainOrder[i]) : i \in 1..Len(ChainOrder)}

\* The providers of an answer that returned a feature.
Producers(a) == SeqToSet(a.invoked) \ SeqToSet(a.failed)

\* C28: the provider label of a returned Feature names the provider that
\* produced the geometry, and the straight-line fallback never carries the
\* label of a real routing provider.
C28_ProviderNamesProducer ==
    (ures.kind \in {"route", "impacted"} /\ ures.status = 200) =>
        /\ \A p \in Producers(ures) : ures.feature.provider = ProviderLabel(p)
        /\ Producers(ures) = {} => ures.feature.provider \notin RealProviderLabels

(***************************************************************************)
(* Properties of the version of radars_updates_view.                       *)
(***************************************************************************)
\* The zones the view holds in scope for a request: what it returns when
\* nothing is filtered by version.
ScopeOf(q) == RadarsUpdatesView(radars, hasGis, [q EXCEPT !.version = VText("0")]).ids

\* The largest updated_at among the zones ids of the table.
NewestOf(ids) ==
    CHOOSE t \in {radars[i].updated_at : i \in ids} :
        \A i \in ids : radars[i].updated_at <= t

ChangedForClient(i) == sync.known[i] = NoRow \/ sync.known[i] # radars[i]

\* C24: at every sync after the first, made with the version of the
\* previous sync, every zone now in scope that was not in scope, or had
\* different content, at the previous sync is among the records returned.
C24_NoChangeLost ==
    (ures.kind = "updates" /\ ures.status = 200 /\ sync.kind = "synced") =>
        \A i \in ZoneOf(radars, hasGis, ures.req) :
            ChangedForClient(i) => i \in ures.ids

(***************************************************************************)
(* Properties of GET /health.                                              *)
(***************************************************************************)
\* The self-test route of the registry as it stands succeeded.
SelfTestSucceeds ==
    /\ HealthSelfTest(algorithms).raised = "none"
    /\ HealthSelfTest(algorithms).feature # NoFeature

Measured == measured.res # NoResult

\* The summed length of the segments of the measured sequence, in metres.
RECURSIVE SegmentSum(_)
SegmentSum(n) ==
    IF n = 0 THEN 0
    ELSE SegmentSum(n - 1)
         + (EARTH_R_PER_DEGREE
               * Abs(measured.waypoints[n + 1].lon - measured.waypoints[n].lon))
           \div MILLI

\* C26: for a sequence of two or more points the route type follows the
\* ordered test on the summed segment distance (urban below the urban
\* threshold, else highway above the highway threshold, else suburban
\* with more than 10 points, else rural), is never 'unknown', and
\* waypoint_count is the length of the sequence; for fewer than two points
\* the zeroed record with route type 'unknown' is returned.
C26_RouteTypeByOrderedTest ==
    Measured =>
        LET n == Len(measured.waypoints)
            d == SegmentSum(n - 1)
            r == measured.res
        IN  IF n >= 2
            THEN /\ r.route_type =
                       (IF d < URBAN_THRESHOLD THEN "urban"
                        ELSE IF d > HIGHWAY_THRESHOLD THEN "highway"
                        ELSE IF n > 10 THEN "suburban"
                        ELSE "rural")
                 /\ r.route_type # "unknown"
                 /\ r.waypoint_count = n
            ELSE /\ r.route_type = "unknown"
                 /\ r.waypoint_count = 0
                 /\ r.distance_m = 0
                 /\ r.duration_s = 0
                 /\ r.estimated_speed_tenths = 0

\* More than ten points and a summed distance above the highway threshold:
\* the highway test comes first.
C26_Witness ==
    /\ Measured
    /\ Len(measured.waypoints) > 10
    /\ measured.res.distance_m > HIGHWAY_THRESHOLD
    /\ measured.res.route_type = "highway"

(***************************************************************************)
(* Properties of the projecting generators.                                *)
(***************************************************************************)
\* C27: for valid endpoints the generator returns without raising: every
\* point it constructs passes the Coordinate range check.
C27_ValidEndpointsNeverRaise ==
    (/\ CoordinateOkAt(proj.start.lat, proj.start.lon, MILLI)
     /\ CoordinateOkAt(proj.end.lat, proj.end.lon, MILLI)) =>
        /\ proj.res.raised = "none"
        /\ \A i \in 1..Len(proj.res.waypoints) :
              CoordinateOkAt(proj.res.waypoints[i].lat, proj.res.waypoints[i].lon,
                             MILLI)

(***************************************************************************)
(* Properties of detect.                                                   *)
(***************************************************************************)
\* The requests answered 'detection recorded'.
Recorded == {i \in DetectIds : detect.reqs[i].pc = "recorded"}

\* No request is between its read of the row and its save.
NoDetectInFlight ==
    \A i \in DetectIds : detect.reqs[i].pc \in {"waiting", "recorded", "rejected"}

\* C30: once N detect requests on the radar have completed, in any
\* interleaving, alert_count has increased by exactly N.
C30_EveryDetectionCounted ==
    NoDetectInFlight => detect.alert_count = Cardinality(Recorded)

====
